---- MODULE Spec2Model ----
(***************************************************************************)
(* A model of the poem harvesting pipeline: the retrying fetch of          *)
(* scrape_poems.py, its backoff computation, the checkpointed page loop,   *)
(* a killed run and its rerun, the on-disk page cache of                   *)
(* shortlist_poems.py / 3-build_band_mods.py, the baseline bands and the   *)
(* classifier scan of shortlist_poems.py.                                  *)
(* Durations are integers in milliseconds.                                 *)
(***************************************************************************)
EXTENDS Integers, Sequences, FiniteSets, TLC

VARIABLES
    bo_in,          \* compute_backoff_seconds: the arguments of the call
    bo_out,         \* compute_backoff_seconds: the value returned, or NotCalled
    f_pc,           \* fetch_html_with_retries: "idle", "loop", "returned", "raised"
    f_args,         \* [max_retries, base_delay] of the running call
    f_attempt,      \* the loop variable `attempt` of the next iteration
    f_last_error,   \* the local last_error: NoError or the exception caught
    f_cause,        \* __cause__ of the RuntimeError raised, NoError if none
    f_wait,         \* the last time.sleep of the call, NoSleep if none yet
    f_trace,        \* history of the call: its GET requests and sleeps in order
    ckpt,           \* the checkpoint file
    corpus,         \* the corpus CSV file
    h_pc,           \* scrape_poems.main: where the run is
    h_args,         \* its arguments: start_page, end_page, resume, delay
    h_loaded,       \* what load_checkpoint returned to this run
    h_ckpt0,        \* history: the checkpoint file as this run found it
    h_start,        \* the local start_page after the resume decision
    h_page,         \* the loop variable `page`
    h_html,         \* the listing page fetched for h_page
    h_rows,         \* the rows parsed from it
    h_fetched,      \* history: the pages this run asked the fetch engine for
    h_sleeps,       \* history: the number of rate-limit sleeps of this run
    site,           \* for each listing page number, the document the site serves
    r_corpus0,      \* history: the corpus file as this run found it
    r_killed,       \* where this run was when its process was killed, "none" if not
    r_rerun,        \* TRUE once the program has been started a second time
    r_prev,         \* history: how the run before this one ended, NoPrevRun if none
    platform,       \* "posix" or "windows": how text files translate newlines
    web_page,       \* for each URL, the document the site serves for it
    web_script,     \* for each URL, how the site answers the next GETs, in order
    net_gets,       \* history: for each URL, the GET requests sent so far
    cache,          \* the cache directory: for each URL, its file
    c_calls,        \* history: the get-or-fetch calls made, with their results
    s_pc,           \* shortlist_poems.main: "idle", "scan" or "done"
    s_in,           \* its inputs: per_band, max_fetch, the bands, the poems read
    s_pool,         \* rough_pool, filtered and sorted
    s_idx,          \* the position in rough_pool of the next row of the loop
    s_attempted,    \* the local `attempted`
    s_shortlisted,  \* the local `shortlisted`: for each band, its candidates
    s_log,          \* history: one record for each iteration of the loop
    b_in,           \* load_baseline_ranges: the passages of the mod file
    b_out,          \* load_baseline_ranges: what the call gave, NotComputed before
    x_in,           \* 3-build_band_mods.extract_poem_text: the page and the title
    x_out           \* what the call selected and returned, NotExtracted before

backoffVars == <<bo_in, bo_out>>
fetchVars == <<f_pc, f_args, f_attempt, f_last_error, f_cause, f_wait, f_trace>>
harvestVars == <<ckpt, corpus, h_pc, h_args, h_loaded, h_ckpt0, h_start, h_page, h_html,
                 h_rows, h_fetched, h_sleeps>>

runVars == <<site, r_corpus0, r_killed, r_rerun, r_prev>>
webVars == <<platform, web_page, web_script, net_gets, cache>>
cacheVars == <<c_calls>>
scanVars == <<s_pc, s_in, s_pool, s_idx, s_attempted, s_shortlisted, s_log>>
bandVars == <<b_in, b_out>>
extractVars == <<x_in, x_out>>

vars == <<backoffVars, fetchVars, harvestVars, runVars, webVars, cacheVars, scanVars,
          bandVars, extractVars>>

\* What the actions of one component leave alone.
outsideBackoff ==
    <<fetchVars, harvestVars, runVars, webVars, cacheVars, scanVars, bandVars, extractVars>>
outsideFetch ==
    <<backoffVars, harvestVars, runVars, webVars, cacheVars, scanVars, bandVars, extractVars>>
outsideHarvest ==
    <<backoffVars, fetchVars, runVars, webVars, cacheVars, scanVars, bandVars, extractVars>>
outsideCache ==
    <<backoffVars, fetchVars, harvestVars, runVars, scanVars, bandVars, extractVars>>
outsideScan ==
    <<backoffVars, fetchVars, harvestVars, runVars, cacheVars, bandVars, extractVars>>
outsideBands == <<backoffVars, fetchVars, harvestVars, runVars, webVars, cacheVars,
                 scanVars, extractVars>>
outsideExtract == <<backoffVars, fetchVars, harvestVars, runVars, webVars, cacheVars,
                   scanVars, bandVars>>
outsideRun ==
    <<backoffVars, fetchVars, webVars, cacheVars, scanVars, bandVars, extractVars>>

(***************************************************************************)
(* Bounds of the model.                                                    *)
(***************************************************************************)
MaxRetriesBound == 3
MaxAttempt == 8
MaxPage == 2
MaxCalls == 3
MaxPerBand == 2
MaxFetch == 2
MaxBaseline == 4

(***************************************************************************)
(* Program constants.                                                      *)
(***************************************************************************)
BackoffCapMs == 60000
JitterFloorMs == 100
MinCellChars == 250
HardCharSlack == 80
HardWordSlack == 20
MinPoolLines == 8
MaxPoolLines == 60

Max(a, b) == IF a >= b THEN a ELSE b
Min(a, b) == IF a <= b THEN a ELSE b

RECURSIVE Pow2(_)
Pow2(n) == IF n <= 0 THEN 1 ELSE 2 * Pow2(n - 1)

(***************************************************************************)
(* Python's float(str), for the decimal literals [sign] digits [. digits]. *)
(* The result is in milliseconds; ok = FALSE is ValueError.                *)
(***************************************************************************)
DigitVal == [c \in {"0", "1", "2", "3", "4", "5", "6", "7", "8", "9"} |->
                CASE c = "0" -> 0 [] c = "1" -> 1 [] c = "2" -> 2 [] c = "3" -> 3
                  [] c = "4" -> 4 [] c = "5" -> 5 [] c = "6" -> 6 [] c = "7" -> 7
                  [] c = "8" -> 8 [] c = "9" -> 9]

AllDigits(s) == \A i \in 1..Len(s) : s[i] \in DOMAIN DigitVal

RECURSIVE DigitsValue(_)
DigitsValue(s) ==
    IF s = <<>> THEN 0
    ELSE 10 * DigitsValue(SubSeq(s, 1, Len(s) - 1)) + DigitVal[s[Len(s)]]

\* The digits after the point, as thousandths (digits beyond the third are dropped).
FractionMs(s) ==
    LET t == SubSeq(s, 1, Min(Len(s), 3))
    IN  DigitsValue(t) * (CASE Len(t) = 0 -> 0 [] Len(t) = 1 -> 100
                            [] Len(t) = 2 -> 10 [] OTHER -> 1)

ParseFloat(text) ==
    LET signed == Len(text) > 0 /\ text[1] \in {"-", "+"}
        body   == IF signed THEN Tail(text) ELSE text
        dots   == {i \in 1..Len(body) : body[i] = "."}
        cut    == IF dots = {} THEN Len(body) + 1
                  ELSE CHOOSE i \in dots : \A j \in dots : i <= j
        whole  == SubSeq(body, 1, cut - 1)
        frac   == SubSeq(body, cut + 1, Len(body))
        ok     == /\ AllDigits(whole) /\ AllDigits(frac)
                  /\ Len(whole) + Len(frac) > 0
        mag    == IF ok THEN 1000 * DigitsValue(whole) + FractionMs(frac) ELSE 0
    IN  [ok |-> ok, ms |-> IF signed /\ text[1] = "-" THEN 0 - mag ELSE mag]

(***************************************************************************)
(* Responses. kind = "none" is `response is None` (session.get raised);    *)
(* has_ra says whether a Retry-After header is present, ra is its text.    *)
(***************************************************************************)
NoResponse == [kind |-> "none", status |-> 0, has_ra |-> FALSE, ra |-> <<>>]
HttpResponse(status, has_ra, ra) ==
    [kind |-> "http", status |-> status, has_ra |-> has_ra, ra |-> ra]

TransientStatuses == {429, 500, 502, 503, 504}

\* requests.Response.raise_for_status raises HTTPError for 4xx and 5xx only.
RaisesForStatus(status) == 400 <= status /\ status < 600

\* random.uniform(0, hi): the end points and the middle of the interval.
UniformSamples(hi) == {0, hi \div 2, hi}

ExponentialPart(attempt, base_delay) ==
    Min(BackoffCapMs, base_delay * Pow2(attempt - 1))

JitterMax(base_delay) == base_delay \div 2 + JitterFloorMs

HonoursRetryAfter(response) ==
    /\ response.kind = "http"
    /\ response.has_ra
    /\ response.ra # <<>>
    /\ ParseFloat(response.ra).ok

\* Variants of compute_backoff_seconds with one slip each.
compute_backoff_jittered_header(response, attempt, base_delay) ==
    IF HonoursRetryAfter(response)
    THEN {Max(ParseFloat(response.ra).ms, 0) + j :
              j \in UniformSamples(JitterMax(base_delay))}
    ELSE {ExponentialPart(attempt, base_delay) + j :
              j \in UniformSamples(JitterMax(base_delay))}

compute_backoff_positive_only(response, attempt, base_delay) ==
    IF HonoursRetryAfter(response) /\ ParseFloat(response.ra).ms > 0
    THEN {ParseFloat(response.ra).ms}
    ELSE {ExponentialPart(attempt, base_delay) + j :
              j \in UniformSamples(JitterMax(base_delay))}

compute_backoff_uncapped(response, attempt, base_delay) ==
    IF HonoursRetryAfter(response)
    THEN {Max(ParseFloat(response.ra).ms, 0)}
    ELSE {base_delay * Pow2(attempt - 1) + j :
              j \in UniformSamples(JitterMax(base_delay))}

\* The set of values compute_backoff_seconds can return (one per jitter draw).
compute_backoff_seconds(response, attempt, base_delay) ==
    IF HonoursRetryAfter(response)
    THEN {Max(ParseFloat(response.ra).ms, 0)}
    ELSE {ExponentialPart(attempt, base_delay) + j :
              j \in UniformSamples(JitterMax(base_delay))}


(***************************************************************************)
(* compute_backoff_seconds applied to arguments drawn from bounded sets.   *)
(***************************************************************************)
RetryAfterTexts ==
    { <<>>, <<"3">>, <<"0">>, <<"-", "5">>, <<"1", ".", "5">>, <<"1", "2", "0">>,
      <<"x">>, <<"3", "s">> }

BackoffResponses ==
    {NoResponse, HttpResponse(503, FALSE, <<>>)}
        \cup {HttpResponse(st, TRUE, t) : st \in {429, 404}, t \in RetryAfterTexts}

BaseDelays == {0, 500, 2000, 40000}

NotCalled == [called |-> FALSE, value |-> 0]
Returned(v) == [called |-> TRUE, value |-> v]

BackoffIdleIn == [response |-> NoResponse, attempt |-> 1, base_delay |-> 0]

InitBackoff ==
    /\ bo_in \in [response : BackoffResponses, attempt : 1..MaxAttempt,
                  base_delay : BaseDelays]
    /\ bo_out = NotCalled

IdleBackoff == bo_in = BackoffIdleIn /\ bo_out = NotCalled

CallComputeBackoff ==
    /\ ~bo_out.called
    /\ \E w \in compute_backoff_seconds(bo_in.response, bo_in.attempt, bo_in.base_delay) :
           bo_out' = Returned(w)
    /\ UNCHANGED <<bo_in, outsideBackoff>>

(***************************************************************************)
(* fetch_html_with_retries: one action per way an iteration of its loop    *)
(* can go, and one for the raise after the loop.                           *)
(***************************************************************************)
NoError == [attempt |-> 0, kind |-> "none"]
CaughtError(attempt, kind) == [attempt |-> attempt, kind |-> kind]

NoSleep == [slept |-> FALSE, ms |-> 0]
Slept(ms) == [slept |-> TRUE, ms |-> ms]

GetEvent(attempt, result, status) ==
    [ev |-> "get", attempt |-> attempt, result |-> result, status |-> status]
SleepEvent(attempt) ==
    [ev |-> "sleep", attempt |-> attempt, result |-> "none", status |-> 0]

FetchStatuses == {200, 204, 404, 429, 503}
FetchRetryAfter == {<<"3">>, <<"x">>}
FetchResponses ==
    {HttpResponse(st, FALSE, <<>>) : st \in FetchStatuses}
        \cup {HttpResponse(st, TRUE, t) : st \in FetchStatuses \ {200}, t \in FetchRetryAfter}
FetchBaseDelays == {0, 1000}

FetchIdleArgs == [max_retries |-> 1, base_delay |-> 0]

IdleFetch ==
    /\ f_pc = "idle"
    /\ f_args = FetchIdleArgs
    /\ f_attempt = 1
    /\ f_last_error = NoError
    /\ f_cause = NoError
    /\ f_wait = NoSleep
    /\ f_trace = <<>>

InLoop == f_pc = "loop" /\ f_attempt <= f_args.max_retries

\* A call of fetch_html_with_retries begins: line 177 and the loop header.
FetchCall ==
    /\ f_pc \in {"idle", "returned", "raised"}
    /\ \E m \in 1..MaxRetriesBound, b \in FetchBaseDelays :
           f_args' = [max_retries |-> m, base_delay |-> b]
    /\ f_pc' = "loop"
    /\ f_attempt' = 1
    /\ f_last_error' = NoError
    /\ f_cause' = NoError
    /\ f_wait' = NoSleep
    /\ f_trace' = <<>>
    /\ UNCHANGED outsideFetch

\* session.get answers 200: the text is returned.
FetchOk ==
    /\ InLoop
    /\ \E r \in FetchResponses :
           /\ r.status = 200
           /\ f_trace' = Append(f_trace, GetEvent(f_attempt, "response", r.status))
    /\ f_pc' = "returned"
    /\ UNCHANGED <<outsideFetch, f_args, f_attempt, f_last_error, f_cause, f_wait>>

\* A status of {429, 500, 502, 503, 504}: sleep, then `continue`.
FetchTransient ==
    /\ InLoop
    /\ \E r \in FetchResponses :
           /\ r.status \in TransientStatuses
           /\ \E w \in compute_backoff_seconds(r, f_attempt, f_args.base_delay) :
                  f_wait' = Slept(w)
           /\ f_trace' = f_trace \o <<GetEvent(f_attempt, "response", r.status),
                                      SleepEvent(f_attempt)>>
    /\ f_attempt' = f_attempt + 1
    /\ UNCHANGED <<outsideFetch, f_pc, f_args, f_last_error, f_cause>>

\* Another 4xx/5xx status: raise_for_status raises, the handler records it and sleeps.
FetchHttpError ==
    /\ InLoop
    /\ \E r \in FetchResponses :
           /\ r.status # 200
           /\ r.status \notin TransientStatuses
           /\ RaisesForStatus(r.status)
           /\ \E w \in compute_backoff_seconds(r, f_attempt, f_args.base_delay) :
                  f_wait' = Slept(w)
           /\ f_trace' = f_trace \o <<GetEvent(f_attempt, "response", r.status),
                                      SleepEvent(f_attempt)>>
    /\ f_last_error' = CaughtError(f_attempt, "HTTPError")
    /\ f_attempt' = f_attempt + 1
    /\ UNCHANGED <<outsideFetch, f_pc, f_args, f_cause>>

\* A variant of FetchOtherStatus that takes any status raise_for_status accepts as success.
FetchOtherStatusReturns ==
    /\ InLoop
    /\ \E r \in FetchResponses :
           /\ r.status # 200
           /\ r.status \notin TransientStatuses
           /\ ~RaisesForStatus(r.status)
           /\ f_trace' = Append(f_trace, GetEvent(f_attempt, "response", r.status))
    /\ f_pc' = "returned"
    /\ UNCHANGED <<outsideFetch, f_args, f_attempt, f_last_error, f_cause, f_wait>>

\* A status for which raise_for_status does nothing: the iteration just ends.
FetchOtherStatus ==
    /\ InLoop
    /\ \E r \in FetchResponses :
           /\ r.status # 200
           /\ r.status \notin TransientStatuses
           /\ ~RaisesForStatus(r.status)
           /\ f_trace' = Append(f_trace, GetEvent(f_attempt, "response", r.status))
    /\ f_attempt' = f_attempt + 1
    /\ UNCHANGED <<outsideFetch, f_pc, f_args, f_last_error, f_cause, f_wait>>

\* session.get raises a RequestException (timeout, connection error).
FetchTransportError ==
    /\ InLoop
    /\ \E w \in compute_backoff_seconds(NoResponse, f_attempt, f_args.base_delay) :
           f_wait' = Slept(w)
    /\ f_trace' = f_trace \o <<GetEvent(f_attempt, "exception", 0), SleepEvent(f_attempt)>>
    /\ f_last_error' = CaughtError(f_attempt, "RequestException")
    /\ f_attempt' = f_attempt + 1
    /\ UNCHANGED <<outsideFetch, f_pc, f_args, f_cause>>

\* The loop is over: raise RuntimeError(...) from last_error.
FetchExhausted ==
    /\ f_pc = "loop"
    /\ f_attempt > f_args.max_retries
    /\ f_pc' = "raised"
    /\ f_cause' = f_last_error
    /\ UNCHANGED <<outsideFetch, f_args, f_attempt, f_last_error, f_wait, f_trace>>

(***************************************************************************)
(* The checkpoint file. A file holds a JSON document or something that is  *)
(* none: kind "invalid" is content read_text or json.loads raises on,      *)
(* "non_object" is JSON that is no object (data.get raises AttributeError),*)
(* "object" is an object, with or without a next_page member. vtype is the *)
(* Python type json.loads gives the member; a bool carries 1 for true and  *)
(* 0 for false, the values it has as a Python int.                         *)
(***************************************************************************)
JsonInvalid == [kind |-> "invalid", has |-> FALSE, vtype |-> "none", v |-> 0]
JsonNonObject == [kind |-> "non_object", has |-> FALSE, vtype |-> "none", v |-> 0]
JsonObject(has, vtype, v) == [kind |-> "object", has |-> has, vtype |-> vtype, v |-> v]

NoFile == [exists |-> FALSE, doc |-> JsonInvalid]
FileOf(doc) == [exists |-> TRUE, doc |-> doc]

None == [called |-> TRUE, some |-> FALSE, v |-> 0]
Some(v) == [called |-> TRUE, some |-> TRUE, v |-> v]
NotLoaded == [called |-> FALSE, some |-> FALSE, v |-> 0]

\* isinstance(x, int): bool is a subclass of int.
IsInstanceInt(vtype) == vtype \in {"int", "bool"}

\* A variant of load_checkpoint without the lower bound on the page.
load_checkpoint_any_int(file) ==
    IF ~file.exists THEN None
    ELSE IF /\ file.doc.kind = "object"
            /\ file.doc.has
            /\ IsInstanceInt(file.doc.vtype)
         THEN Some(file.doc.v)
         ELSE None

load_checkpoint(file) ==
    IF ~file.exists THEN None
    ELSE IF /\ file.doc.kind = "object"
            /\ file.doc.has
            /\ IsInstanceInt(file.doc.vtype)
            /\ file.doc.v >= 1
         THEN Some(file.doc.v)
         ELSE None

\* A variant of save_checkpoint that stores the page just completed.
save_checkpoint_completed_page(next_page) == FileOf(JsonObject(TRUE, "int", next_page - 1))

save_checkpoint(next_page) == FileOf(JsonObject(TRUE, "int", next_page))

(***************************************************************************)
(* The corpus file: absent, or a sequence of lines.                        *)
(***************************************************************************)
HeaderLine == [kind |-> "header", page |-> 0, idx |-> 0]
RowLine(page, idx) == [kind |-> "row", page |-> page, idx |-> idx]

NoCorpus == [exists |-> FALSE, lines |-> <<>>]

ensure_csv_header(file) ==
    IF ~file.exists \/ file.lines = <<>>
    THEN [exists |-> TRUE, lines |-> <<HeaderLine>>]
    ELSE file

\* A variant of append_rows_to_csv that opens the file with mode "w".
append_rows_truncating(file, rows) == [exists |-> TRUE, lines |-> rows]

append_rows_to_csv(file, rows) == [exists |-> TRUE, lines |-> file.lines \o rows]

(***************************************************************************)
(* Listing pages. A page has the poems table or not; a table row has a     *)
(* number of cells and a title that is empty or not.                       *)
(***************************************************************************)
GoodRow == [cells |-> 4, titled |-> TRUE]
ShortRow == [cells |-> 3, titled |-> TRUE]
UntitledRow == [cells |-> 4, titled |-> FALSE]

NoHtml == [table |-> FALSE, trs |-> <<>>]
ListingHtmls ==
    { [table |-> FALSE, trs |-> <<>>],
      [table |-> TRUE, trs |-> <<>>],
      [table |-> TRUE, trs |-> <<GoodRow, GoodRow, GoodRow>>],
      [table |-> TRUE, trs |-> <<ShortRow, GoodRow, UntitledRow>>] }

RECURSIVE KeptRows(_, _, _)
KeptRows(trs, page, i) ==
    IF i > Len(trs) THEN <<>>
    ELSE IF trs[i].cells < 4 \/ ~trs[i].titled
         THEN KeptRows(trs, page, i + 1)
         ELSE <<RowLine(page, i)>> \o KeptRows(trs, page, i + 1)

\* The rows parse_poem_rows returns for a page that has the table.
parse_poem_rows(html, page) == KeptRows(html.trs, page, 1)

(***************************************************************************)
(* scrape_poems.main.                                                      *)
(***************************************************************************)
Delays == {0, 500}

HarvestArgs ==
    [start_page : 1..MaxPage, end_page : 1..MaxPage, resume : BOOLEAN, delay : Delays]

HarvestIdleArgs == [start_page |-> 1, end_page |-> 1, resume |-> TRUE, delay |-> 0]

CheckpointFiles ==
    {NoFile, FileOf(JsonInvalid), FileOf(JsonNonObject), FileOf(JsonObject(FALSE, "none", 0))}
        \cup {FileOf(JsonObject(TRUE, "int", n)) : n \in (0 - 1)..(MaxPage + 1)}
        \cup {FileOf(JsonObject(TRUE, t, 2)) : t \in {"float", "string"}}
        \cup {FileOf(JsonObject(TRUE, "bool", b)) : b \in {0, 1}}
        \cup {FileOf(JsonObject(TRUE, "null", 0))}

CorpusFiles ==
    {NoCorpus, [exists |-> TRUE, lines |-> <<HeaderLine, RowLine(1, 1)>>]}

\* The listing pages of the site: each page number has one document.
Sites == [1..MaxPage -> ListingHtmls]

NoSite == [p \in 1..MaxPage |-> NoHtml]

\* What is kept of a run when the program is started again.
NoPrevRun ==
    [ended |-> "none", at |-> "none", args |-> HarvestIdleArgs, page |-> 1,
     ckpt0 |-> NoFile, corpus0 |-> NoCorpus, ckpt |-> NoFile]

InitHarvest ==
    /\ ckpt \in CheckpointFiles
    /\ corpus \in CorpusFiles
    /\ h_pc = "idle"
    /\ h_args = HarvestIdleArgs
    /\ h_loaded = NotLoaded
    /\ h_ckpt0 = NoFile
    /\ h_start = 1
    /\ h_page = 1
    /\ h_html = NoHtml
    /\ h_rows = <<>>
    /\ h_fetched = <<>>
    /\ h_sleeps = 0
    /\ site \in Sites
    /\ r_corpus0 = corpus
    /\ r_killed = "none"
    /\ r_rerun = FALSE
    /\ r_prev = NoPrevRun

IdleHarvest ==
    /\ ckpt = NoFile
    /\ corpus = NoCorpus
    /\ h_pc = "idle"
    /\ h_args = HarvestIdleArgs
    /\ h_loaded = NotLoaded
    /\ h_ckpt0 = NoFile
    /\ h_start = 1
    /\ h_page = 1
    /\ h_html = NoHtml
    /\ h_rows = <<>>
    /\ h_fetched = <<>>
    /\ h_sleeps = 0
    /\ site = NoSite
    /\ r_corpus0 = NoCorpus
    /\ r_killed = "none"
    /\ r_rerun = FALSE
    /\ r_prev = NoPrevRun

\* A variant of HarvestRejectArgs that checks the arguments after ensure_csv_header.
HarvestRejectArgsLate ==
    /\ h_pc = "idle"
    /\ \E a \in HarvestArgs :
           /\ a.end_page < a.start_page
           /\ h_args' = a
    /\ h_pc' = "failed"
    /\ h_ckpt0' = ckpt
    /\ corpus' = ensure_csv_header(corpus)
    /\ UNCHANGED <<outsideHarvest, ckpt, h_loaded, h_start, h_page, h_html,
                   h_rows, h_fetched, h_sleeps>>

\* end_page < start_page: main raises ValueError before touching anything.
HarvestRejectArgs ==
    /\ h_pc = "idle"
    /\ \E a \in HarvestArgs :
           /\ a.end_page < a.start_page
           /\ h_args' = a
    /\ h_pc' = "failed"
    /\ h_ckpt0' = ckpt
    /\ UNCHANGED <<outsideHarvest, ckpt, corpus, h_loaded, h_start, h_page, h_html,
                   h_rows, h_fetched, h_sleeps>>

\* A variant of HarvestBegin that resumes at the checkpoint whatever start_page is.
HarvestBeginAtCheckpoint ==
    /\ h_pc = "idle"
    /\ \E a \in HarvestArgs :
           /\ a.end_page >= a.start_page
           /\ h_args' = a
           /\ LET loaded == IF a.resume THEN load_checkpoint(ckpt) ELSE NotLoaded
                  start  == IF loaded.some THEN loaded.v ELSE a.start_page
              IN  /\ h_loaded' = loaded
                  /\ h_start' = start
                  /\ h_page' = start
                  /\ h_pc' = IF start <= a.end_page THEN "fetch" ELSE "done"
    /\ corpus' = ensure_csv_header(corpus)
    /\ h_ckpt0' = ckpt
    /\ UNCHANGED <<outsideHarvest, ckpt, h_html, h_rows, h_fetched, h_sleeps>>

\* A variant of HarvestBegin that loads the checkpoint and starts at start_page anyway.
HarvestBeginAtStartPage ==
    /\ h_pc = "idle"
    /\ \E a \in HarvestArgs :
           /\ a.end_page >= a.start_page
           /\ h_args' = a
           /\ h_loaded' = (IF a.resume THEN load_checkpoint(ckpt) ELSE NotLoaded)
           /\ h_start' = a.start_page
           /\ h_page' = a.start_page
           /\ h_pc' = "fetch"
    /\ corpus' = ensure_csv_header(corpus)
    /\ h_ckpt0' = ckpt
    /\ UNCHANGED <<outsideHarvest, ckpt, h_html, h_rows, h_fetched, h_sleeps>>

\* Lines 243-266: the header is ensured, the start page resolved, the loop entered.
HarvestBegin ==
    /\ h_pc = "idle"
    /\ \E a \in HarvestArgs :
           /\ a.end_page >= a.start_page
           /\ h_args' = a
           /\ LET loaded == IF a.resume THEN load_checkpoint(ckpt) ELSE NotLoaded
                  start  == IF loaded.some THEN Max(a.start_page, loaded.v)
                            ELSE a.start_page
              IN  /\ h_loaded' = loaded
                  /\ h_start' = start
                  /\ h_page' = start
                  /\ h_pc' = IF start <= a.end_page THEN "fetch" ELSE "done"
    /\ corpus' = ensure_csv_header(corpus)
    /\ h_ckpt0' = ckpt
    /\ UNCHANGED <<outsideHarvest, ckpt, h_html, h_rows, h_fetched, h_sleeps>>

\* fetch_html_with_retries returns the page.
HarvestFetchOk ==
    /\ h_pc = "fetch"
    /\ h_fetched' = Append(h_fetched, h_page)
    /\ h_html' = site[h_page]
    /\ h_pc' = "parse"
    /\ UNCHANGED <<outsideHarvest, ckpt, corpus, h_args, h_loaded, h_ckpt0, h_start, h_page,
                   h_rows, h_sleeps>>

\* fetch_html_with_retries raises: the RuntimeError ends main.
HarvestFetchFatal ==
    /\ h_pc = "fetch"
    /\ h_fetched' = Append(h_fetched, h_page)
    /\ h_pc' = "failed"
    /\ UNCHANGED <<outsideHarvest, ckpt, corpus, h_args, h_loaded, h_ckpt0, h_start, h_page,
                   h_html, h_rows, h_sleeps>>

\* A variant of HarvestParseOk that goes to the checkpoint without the append.
HarvestParseOkSkipsAppend ==
    /\ h_pc = "parse"
    /\ h_html.table
    /\ h_rows' = parse_poem_rows(h_html, h_page)
    /\ h_pc' = "save"
    /\ UNCHANGED <<outsideHarvest, ckpt, corpus, h_args, h_loaded, h_ckpt0, h_start, h_page,
                   h_html, h_fetched, h_sleeps>>

\* parse_poem_rows returns the rows of the page.
HarvestParseOk ==
    /\ h_pc = "parse"
    /\ h_html.table
    /\ h_rows' = parse_poem_rows(h_html, h_page)
    /\ h_pc' = "append"
    /\ UNCHANGED <<outsideHarvest, ckpt, corpus, h_args, h_loaded, h_ckpt0, h_start, h_page,
                   h_html, h_fetched, h_sleeps>>

\* A variant of HarvestParseFail that passes over the page and goes on.
HarvestParseFailSkipsPage ==
    /\ h_pc = "parse"
    /\ ~h_html.table
    /\ h_rows' = <<>>
    /\ h_pc' = "append"
    /\ UNCHANGED <<outsideHarvest, ckpt, corpus, h_args, h_loaded, h_ckpt0, h_start, h_page,
                   h_html, h_fetched, h_sleeps>>

\* No table with the expected header: parse_poem_rows raises ValueError.
HarvestParseFail ==
    /\ h_pc = "parse"
    /\ ~h_html.table
    /\ h_pc' = "failed"
    /\ UNCHANGED <<outsideHarvest, ckpt, corpus, h_args, h_loaded, h_ckpt0, h_start, h_page,
                   h_html, h_rows, h_fetched, h_sleeps>>

HarvestAppend ==
    /\ h_pc = "append"
    /\ corpus' = append_rows_to_csv(corpus, h_rows)
    /\ h_pc' = "save"
    /\ UNCHANGED <<outsideHarvest, ckpt, h_args, h_loaded, h_ckpt0, h_start, h_page, h_html,
                   h_rows, h_fetched, h_sleeps>>

HarvestSave ==
    /\ h_pc = "save"
    /\ ckpt' = save_checkpoint(h_page + 1)
    /\ h_pc' = "pace"
    /\ UNCHANGED <<outsideHarvest, corpus, h_args, h_loaded, h_ckpt0, h_start, h_page, h_html,
                   h_rows, h_fetched, h_sleeps>>

\* Lines 298-299 and the loop header: sleep if delay > 0, then the next page or the end.
HarvestPace ==
    /\ h_pc = "pace"
    /\ h_sleeps' = IF h_args.delay > 0 THEN h_sleeps + 1 ELSE h_sleeps
    /\ IF h_page < h_args.end_page
       THEN h_page' = h_page + 1 /\ h_pc' = "fetch"
       ELSE h_page' = h_page /\ h_pc' = "done"
    /\ UNCHANGED <<outsideHarvest, ckpt, corpus, h_args, h_loaded, h_ckpt0, h_start, h_html,
                   h_rows, h_fetched>>

NextHarvest ==
    \/ HarvestRejectArgs
    \/ HarvestBegin
    \/ HarvestFetchOk
    \/ HarvestFetchFatal
    \/ HarvestParseOk
    \/ HarvestParseFail
    \/ HarvestAppend
    \/ HarvestSave
    \/ HarvestPace

(***************************************************************************)
(* A run that is killed, and the program started a second time on the same *)
(* checkpoint and corpus paths.                                            *)
(***************************************************************************)
\* The checkpoint file between the open(path, "w") of write_text, which empties
\* it, and the end of the write: empty or a strict prefix of the JSON text.
TruncatedFile == FileOf(JsonInvalid)

\* The process is killed (SIGKILL, power loss) at some point of the loop. Inside
\* append_rows_to_csv some first rows have reached the file; inside save_checkpoint
\* the file is still the old one, is truncated, or is already the new one.
\* One kill is considered: that of the first of the two runs.
HarvestKill ==
    /\ ~r_rerun
    /\ h_pc \in {"fetch", "parse", "append", "save", "pace"}
    /\ \/ /\ h_pc \notin {"append", "save"}
          /\ UNCHANGED <<ckpt, corpus>>
       \/ /\ h_pc = "append"
          /\ \E n \in 0..Len(h_rows) :
                 corpus' = append_rows_to_csv(corpus, SubSeq(h_rows, 1, n))
          /\ UNCHANGED ckpt
       \/ /\ h_pc = "save"
          /\ ckpt' \in {ckpt, TruncatedFile, save_checkpoint(h_page + 1)}
          /\ UNCHANGED corpus
    /\ r_killed' = h_pc
    /\ h_pc' = "killed"
    /\ UNCHANGED <<outsideRun, site, r_corpus0, r_rerun, r_prev, h_args, h_loaded, h_ckpt0,
                   h_start, h_page, h_html, h_rows, h_fetched, h_sleeps>>

\* The program is started again: main begins anew with the files as they are.
HarvestRerun ==
    /\ h_pc \in {"done", "failed", "killed"}
    /\ ~r_rerun
    /\ r_prev' = [ended |-> h_pc, at |-> r_killed, args |-> h_args, page |-> h_page,
                  ckpt0 |-> h_ckpt0, corpus0 |-> r_corpus0, ckpt |-> ckpt]
    /\ r_rerun' = TRUE
    /\ r_killed' = "none"
    /\ r_corpus0' = corpus
    /\ h_pc' = "idle"
    /\ h_args' = HarvestIdleArgs
    /\ h_loaded' = NotLoaded
    /\ h_ckpt0' = NoFile
    /\ h_start' = 1
    /\ h_page' = 1
    /\ h_html' = NoHtml
    /\ h_rows' = <<>>
    /\ h_fetched' = <<>>
    /\ h_sleeps' = 0
    /\ UNCHANGED <<outsideRun, site, ckpt, corpus>>

\* Sites of the two-run scenarios: at most one page lacks the poems table; the
\* other pages carry three good rows (odd pages) or one good row among bad ones.
SiteWithout(bad) ==
    [p \in 1..MaxPage |->
        IF p = bad THEN [table |-> FALSE, trs |-> <<>>]
        ELSE IF p % 2 = 1 THEN [table |-> TRUE, trs |-> <<GoodRow, GoodRow, GoodRow>>]
        ELSE [table |-> TRUE, trs |-> <<ShortRow, GoodRow, UntitledRow>>]]

RerunSites == {SiteWithout(bad) : bad \in 0..MaxPage}

RerunCheckpoints == {NoFile} \cup {FileOf(JsonObject(TRUE, "int", n)) : n \in 1..(MaxPage + 1)}

InitRerun ==
    /\ ckpt \in RerunCheckpoints
    /\ corpus \in CorpusFiles
    /\ h_pc = "idle"
    /\ h_args = HarvestIdleArgs
    /\ h_loaded = NotLoaded
    /\ h_ckpt0 = NoFile
    /\ h_start = 1
    /\ h_page = 1
    /\ h_html = NoHtml
    /\ h_rows = <<>>
    /\ h_fetched = <<>>
    /\ h_sleeps = 0
    /\ site \in RerunSites
    /\ r_corpus0 = corpus
    /\ r_killed = "none"
    /\ r_rerun = FALSE
    /\ r_prev = NoPrevRun

NextRerun ==
    \/ NextHarvest
    \/ HarvestKill
    \/ HarvestRerun

(***************************************************************************)
(* Poem detail pages. A document is a sequence of tokens: the characters   *)
(* CR and LF, and td elements. A td has its text lines (as get_text("\n",  *)
(* strip=True) gives them) and a flag saying whether its text contains     *)
(* "Main Menu" or "Sponsored Links". A line has its length, the length and *)
(* the word count that remain once punctuation is stripped, and the drop   *)
(* prefix it starts with, "" if none.                                      *)
(***************************************************************************)
CR == [t |-> "CR", lines |-> <<>>, marker |-> FALSE]
LF == [t |-> "LF", lines |-> <<>>, marker |-> FALSE]
Td(lines, marker) == [t |-> "TD", lines |-> lines, marker |-> marker]

Line(len, typed, words, prefix) ==
    [len |-> len, typed |-> typed, words |-> words, prefix |-> prefix]

DropPrefixes == {"Public Domain Poetry", "By ", "Read, rate", "Main Menu"}

RECURSIVE SumOver(_, _)
SumOver(seq, field) ==
    IF seq = <<>> THEN 0 ELSE seq[1][field] + SumOver(Tail(seq), field)

\* len(td.get_text("\n", strip=True)): the lines and the "\n" between them.
CellTextLen(td) ==
    IF td.lines = <<>> THEN 0 ELSE SumOver(td.lines, "len") + Len(td.lines) - 1

\* max(candidates, key=len): the first of the longest.
FirstLongest(tds) ==
    LET best == CHOOSE i \in DOMAIN tds :
                    /\ \A j \in DOMAIN tds : CellTextLen(tds[j]) <= CellTextLen(tds[i])
                    /\ \A j \in 1..(i - 1) : CellTextLen(tds[j]) < CellTextLen(tds[i])
    IN  tds[best]

IsTd(token) == token.t = "TD"
IsPoemCell(token) == CellTextLen(token) >= MinCellChars /\ ~token.marker
KeepsLine(line) == line.prefix \notin DropPrefixes

\* shortlist_poems.extract_poem_text: the kept lines, which the code joins with " ".
extract_poem_text(html) ==
    LET candidates == SelectSeq(SelectSeq(html, IsTd), IsPoemCell)
    IN  IF candidates = <<>> THEN <<>>
        ELSE SelectSeq(FirstLongest(candidates).lines, KeepsLine)

(***************************************************************************)
(* Text files. Path.write_text translates "\n" to os.linesep and           *)
(* Path.read_text translates "\r\n" and "\r" to "\n" (newline=None).       *)
(***************************************************************************)
RECURSIVE WriteNewlines(_, _)
WriteNewlines(text, os) ==
    IF text = <<>> THEN <<>>
    ELSE IF text[1] = LF /\ os = "windows"
         THEN <<CR, LF>> \o WriteNewlines(Tail(text), os)
         ELSE <<text[1]>> \o WriteNewlines(Tail(text), os)

RECURSIVE UniversalNewlines(_)
UniversalNewlines(text) ==
    IF text = <<>> THEN <<>>
    ELSE IF text[1] = CR /\ Len(text) >= 2 /\ text[2] = LF
         THEN <<LF>> \o UniversalNewlines(SubSeq(text, 3, Len(text)))
         ELSE IF text[1] = CR
              THEN <<LF>> \o UniversalNewlines(Tail(text))
              ELSE <<text[1]>> \o UniversalNewlines(Tail(text))

NoCacheFile == [exists |-> FALSE, bytes |-> <<>>]
write_text(text, os) == [exists |-> TRUE, bytes |-> WriteNewlines(text, os)]
read_text(file) == UniversalNewlines(file.bytes)

(***************************************************************************)
(* The site. A GET of a URL takes the next answer of the URL's script; a   *)
(* script that has run out answers with a connection error. The body of a  *)
(* 200 is the URL's document, the body of any other status is empty.       *)
(***************************************************************************)
Urls == {"u1", "u2"}

\* URLs whose documents and answers are the same in every run of the model.
FixedUrls == {"u3", "u4"}
AllUrls == Urls \cup FixedUrls

PoemLines == <<Line(30, 30, 6, "Public Domain Poetry"), Line(14, 14, 3, "By "),
               Line(130, 120, 22, ""), Line(130, 124, 23, "")>>
PoemCell == Td(PoemLines, FALSE)
MenuCell == Td(<<Line(9, 9, 2, "Main Menu"), Line(300, 290, 50, "")>>, TRUE)
SmallCell == Td(<<Line(120, 110, 20, "")>>, FALSE)

EasyCell == Td(<<Line(30, 30, 6, "Public Domain Poetry"), Line(14, 14, 3, "By "),
                 Line(100, 95, 18, ""), Line(105, 99, 19, "")>>, FALSE)

HardCell == Td(<<Line(30, 30, 6, "Public Domain Poetry"), Line(180, 175, 35, ""),
                 Line(180, 175, 35, "")>>, FALSE)
HardPage == <<MenuCell, LF, HardCell>>

DetailPages ==
    { <<MenuCell, LF, PoemCell, LF>>,
      <<MenuCell, CR, LF, PoemCell, CR, LF>>,
      <<EasyCell, CR>>,
      <<MenuCell, SmallCell>> }

Timeout == NoResponse
Answer(status) == HttpResponse(status, FALSE, <<>>)

Scripts ==
    { <<Answer(200)>>,
      <<Answer(503), Answer(200)>>,
      <<Timeout, Answer(200)>>,
      <<Answer(404), Answer(204)>> }

NextAnswer(url) == IF web_script[url] = <<>> THEN Timeout ELSE Head(web_script[url])
RestOfScript(url) == IF web_script[url] = <<>> THEN <<>> ELSE Tail(web_script[url])

\* session.get followed by raise_for_status raises for this answer.
GetRaises(answer) == answer.kind = "none" \/ RaisesForStatus(answer.status)

ResponseText(url, answer) == IF answer.status = 200 THEN web_page[url] ELSE <<>>

\* The cache directory is kept between runs: a URL has no file yet, or the file
\* an earlier run stored for its document.
FixedPages == [u \in FixedUrls |-> IF u = "u3" THEN HardPage ELSE <<EasyCell, CR>>]
FixedScripts == [u \in FixedUrls |-> <<Answer(200)>>]
FixedFiles == [u \in FixedUrls |-> NoCacheFile]

WithFixed(f, fixed) == [u \in AllUrls |-> IF u \in Urls THEN f[u] ELSE fixed[u]]

InitWeb ==
    /\ platform \in {"posix", "windows"}
    /\ \E pages \in [Urls -> DetailPages] : web_page = WithFixed(pages, FixedPages)
    /\ \E scripts \in [Urls -> Scripts] : web_script = WithFixed(scripts, FixedScripts)
    /\ net_gets = [u \in AllUrls |-> 0]
    /\ \E files \in [Urls -> {NoCacheFile}
                                 \cup {write_text(d, platform) : d \in DetailPages}] :
           cache = WithFixed(files, FixedFiles)
    /\ \A u \in Urls : cache[u].exists => cache[u] = write_text(web_page[u], platform)

IdleWeb ==
    /\ platform = "posix"
    /\ web_page = [u \in AllUrls |-> <<>>]
    /\ web_script = [u \in AllUrls |-> <<>>]
    /\ net_gets = [u \in AllUrls |-> 0]
    /\ cache = [u \in AllUrls |-> NoCacheFile]

(***************************************************************************)
(* fetch_html_cached (3-build_band_mods.py) and                            *)
(* fetch_candidate_text_cached (shortlist_poems.py), called on their own.  *)
(***************************************************************************)
CachedFetchers == {"fetch_html_cached", "fetch_candidate_text_cached"}

\* What a fetcher returns for the document it read or fetched.
ResultOf(fn, html) ==
    IF fn = "fetch_candidate_text_cached" THEN extract_poem_text(html) ELSE html

CallRecord(fn, url, hit, gets, outcome, value) ==
    [fn |-> fn, url |-> url, hit |-> hit, gets |-> gets, outcome |-> outcome,
     value |-> value]

InitCache == c_calls = <<>>
IdleCache == c_calls = <<>>

\* cache_file.exists(): the file is read and nothing is sent.
CachedHit ==
    /\ Len(c_calls) < MaxCalls
    /\ \E fn \in CachedFetchers, url \in Urls :
           /\ cache[url].exists
           /\ c_calls' = Append(c_calls,
                  CallRecord(fn, url, TRUE, 0, "returned",
                             ResultOf(fn, read_text(cache[url]))))
    /\ UNCHANGED <<outsideCache, webVars>>

\* A miss and a GET that raise_for_status accepts: the text is stored and returned.
CachedMissStore ==
    /\ Len(c_calls) < MaxCalls
    /\ \E fn \in CachedFetchers, url \in Urls :
           LET answer == NextAnswer(url)
               html   == ResponseText(url, answer)
           IN  /\ ~cache[url].exists
               /\ ~GetRaises(answer)
               /\ web_script' = [web_script EXCEPT ![url] = RestOfScript(url)]
               /\ net_gets' = [net_gets EXCEPT ![url] = @ + 1]
               /\ cache' = [cache EXCEPT ![url] = write_text(html, platform)]
               /\ c_calls' = Append(c_calls,
                      CallRecord(fn, url, FALSE, 1, "returned", ResultOf(fn, html)))
    /\ UNCHANGED <<outsideCache, platform, web_page>>

\* A variant of CachedMissRaise that stores the body before looking at the status.
CachedMissRaiseStoresFirst ==
    /\ Len(c_calls) < MaxCalls
    /\ \E fn \in CachedFetchers, url \in Urls :
           LET answer == NextAnswer(url)
           IN  /\ ~cache[url].exists
               /\ GetRaises(answer)
               /\ web_script' = [web_script EXCEPT ![url] = RestOfScript(url)]
               /\ net_gets' = [net_gets EXCEPT ![url] = @ + 1]
               /\ cache' = IF answer.kind = "http"
                           THEN [cache EXCEPT ![url] = write_text(<<>>, platform)]
                           ELSE cache
               /\ c_calls' = Append(c_calls,
                      CallRecord(fn, url, FALSE, 1, "raised", <<>>))
    /\ UNCHANGED <<outsideCache, platform, web_page>>

\* A miss and a GET that raises (session.get or raise_for_status): nothing is stored.
CachedMissRaise ==
    /\ Len(c_calls) < MaxCalls
    /\ \E fn \in CachedFetchers, url \in Urls :
           LET answer == NextAnswer(url)
           IN  /\ ~cache[url].exists
               /\ GetRaises(answer)
               /\ web_script' = [web_script EXCEPT ![url] = RestOfScript(url)]
               /\ net_gets' = [net_gets EXCEPT ![url] = @ + 1]
               /\ c_calls' = Append(c_calls,
                      CallRecord(fn, url, FALSE, 1, "raised", <<>>))
    /\ UNCHANGED <<outsideCache, platform, web_page, cache>>

NextCache ==
    \/ CachedHit
    \/ CachedMissStore
    \/ CachedMissRaise

(***************************************************************************)
(* shortlist_poems.py: text metrics, the baseline bands, the poems read    *)
(* from the corpus and the candidate pool.                                 *)
(***************************************************************************)
\* score_text of a text given as its lines joined by " ": the characters left
\* once punctuation is stripped and white space collapsed, and the word count.
score_text(text) ==
    LET typed == SelectSeq(text, LAMBDA l : l.typed > 0)
    IN  [typed_chars |-> IF typed = <<>> THEN 0
                         ELSE SumOver(typed, "typed") + Len(typed) - 1,
         words |-> SumOver(text, "words")]

RECURSIVE InsertAsc(_, _)
InsertAsc(x, sorted) ==
    IF sorted = <<>> THEN <<x>>
    ELSE IF x < sorted[1] THEN <<x>> \o sorted
         ELSE <<sorted[1]>> \o InsertAsc(x, Tail(sorted))

RECURSIVE Sorted(_)
Sorted(values) ==
    IF values = <<>> THEN <<>> ELSE InsertAsc(values[1], Sorted(Tail(values)))

\* A variant of Tertile with the method "exclusive" of statistics.quantiles.
TertileExclusive(data, i) ==
    LET ld    == Len(data)
        m     == ld + 1
        j0    == (i * m) \div 3
        j     == IF j0 < 1 THEN 1 ELSE IF j0 > ld - 1 THEN ld - 1 ELSE j0
        delta == i * m - j * 3
    IN  (data[j] * (3 - delta) + data[j + 1] * delta) \div 3

\* int(statistics.quantiles(data, n=3, method="inclusive")[i - 1]), data sorted.
Tertile(data, i) ==
    LET m     == Len(data) - 1
        j     == (i * m) \div 3
        delta == (i * m) % 3
    IN  (data[j + 1] * (3 - delta) + data[j + 2] * delta) \div 3

Band(char_min, char_max, word_min, word_max) ==
    [char_min |-> char_min, char_max |-> char_max,
     word_min |-> word_min, word_max |-> word_max]

BandNames == <<"easy", "medium", "hard">>

\* A variant of load_baseline_ranges whose medium and hard bands start at the
\* tertiles themselves.
load_baseline_ranges_closed(passages) ==
    LET metrics     == [i \in DOMAIN passages |-> score_text(passages[i])]
        char_values == Sorted([i \in DOMAIN passages |-> metrics[i].typed_chars])
        word_values == Sorted([i \in DOMAIN passages |-> metrics[i].words])
        char_q1     == Tertile(char_values, 1)
        char_q2     == Tertile(char_values, 2)
        word_q1     == Tertile(word_values, 1)
        word_q2     == Tertile(word_values, 2)
        n           == Len(passages)
    IN  [easy   |-> Band(char_values[1], char_q1, word_values[1], word_q1),
         medium |-> Band(char_q1, char_q2, word_q1, word_q2),
         hard   |-> Band(char_q2, char_values[n] + HardCharSlack,
                         word_q2, word_values[n] + HardWordSlack)]

\* load_baseline_ranges for the passages of a mod file (two or more of them).
load_baseline_ranges(passages) ==
    LET metrics     == [i \in DOMAIN passages |-> score_text(passages[i])]
        char_values == Sorted([i \in DOMAIN passages |-> metrics[i].typed_chars])
        word_values == Sorted([i \in DOMAIN passages |-> metrics[i].words])
        char_q1     == Tertile(char_values, 1)
        char_q2     == Tertile(char_values, 2)
        word_q1     == Tertile(word_values, 1)
        word_q2     == Tertile(word_values, 2)
        n           == Len(passages)
    IN  [easy   |-> Band(char_values[1], char_q1, word_values[1], word_q1),
         medium |-> Band(char_q1 + 1, char_q2, word_q1 + 1, word_q2),
         hard   |-> Band(char_q2 + 1, char_values[n] + HardCharSlack,
                         word_q2 + 1, word_values[n] + HardWordSlack)]

\* A line of the corpus CSV as csv.DictReader gives it: lines_num and views_num say
\* whether the lines and views fields are all digits.
CsvRow(title, link, lines_num, lines, views_num, views) ==
    [title |-> title, link |-> link, lines_num |-> lines_num, lines |-> lines,
     views_num |-> views_num, views |-> views]

Poem(title, link, lines, views) ==
    [title |-> title, link |-> link, lines |-> lines, views |-> views]

\* A variant of LoadRows that keeps a row whose link was seen before.
RECURSIVE LoadRowsKeepsRepeats(_, _)
LoadRowsKeepsRepeats(rows, seen_links) ==
    IF rows = <<>> THEN <<>>
    ELSE LET row == rows[1]
         IN  IF \/ row.title = "" \/ row.link = "" \/ row.title = "Sponsored Links"
                \/ ~row.lines_num
             THEN LoadRowsKeepsRepeats(Tail(rows), seen_links)
             ELSE <<Poem(row.title, row.link, row.lines,
                         IF row.views_num THEN row.views ELSE 0)>>
                      \o LoadRowsKeepsRepeats(Tail(rows), seen_links \cup {row.link})

RECURSIVE LoadRows(_, _)
LoadRows(rows, seen_links) ==
    IF rows = <<>> THEN <<>>
    ELSE LET row == rows[1]
         IN  IF \/ row.title = "" \/ row.link = "" \/ row.title = "Sponsored Links"
                \/ ~row.lines_num
                \/ row.link \in seen_links
             THEN LoadRows(Tail(rows), seen_links)
             ELSE <<Poem(row.title, row.link, row.lines,
                         IF row.views_num THEN row.views ELSE 0)>>
                      \o LoadRows(Tail(rows), seen_links \cup {row.link})

load_poems(rows) == LoadRows(rows, {})

\* A variant of GoesBefore that puts the longer of two equally viewed poems first.
GoesBeforeLongerFirst(a, b) ==
    \/ a.views > b.views
    \/ a.views = b.views /\ a.lines > b.lines

\* The order of sort(key=(views, -lines), reverse=True): a goes before b.
GoesBefore(a, b) ==
    \/ a.views > b.views
    \/ a.views = b.views /\ (0 - a.lines) > (0 - b.lines)

\* list.sort is stable, also with reverse=True.
RECURSIVE InsertPoem(_, _)
InsertPoem(x, sorted) ==
    IF sorted = <<>> THEN <<x>>
    ELSE IF GoesBefore(x, sorted[1]) THEN <<x>> \o sorted
         ELSE <<sorted[1]>> \o InsertPoem(x, Tail(sorted))

RECURSIVE SortPool(_)
SortPool(poems) ==
    IF poems = <<>> THEN <<>>
    ELSE InsertPoem(poems[Len(poems)], SortPool(SubSeq(poems, 1, Len(poems) - 1)))

InLineRange(poem) == MinPoolLines <= poem.lines /\ poem.lines <= MaxPoolLines

rough_pool(all_poems) == SortPool(SelectSeq(all_poems, InLineRange))

Candidate(poem, metrics) ==
    [title |-> poem.title, link |-> poem.link, lines |-> poem.lines, views |-> poem.views,
     typed_chars |-> metrics.typed_chars, words |-> metrics.words]

in_band(candidate, band) ==
    /\ band.char_min <= candidate.typed_chars
    /\ candidate.typed_chars <= band.char_max
    /\ band.word_min <= candidate.words
    /\ candidate.words <= band.word_max

\* A variant of FirstOpenBand that does not look at the quota.
RECURSIVE FirstBandInRange(_, _, _, _, _)
FirstBandInRange(candidate, bands, shortlisted, per_band, i) ==
    IF i > Len(BandNames) THEN "none"
    ELSE IF in_band(candidate, bands[BandNames[i]])
         THEN BandNames[i]
         ELSE FirstBandInRange(candidate, bands, shortlisted, per_band, i + 1)

\* Lines 239-244: the first band in order that is not full and holds the candidate.
RECURSIVE FirstOpenBand(_, _, _, _, _)
FirstOpenBand(candidate, bands, shortlisted, per_band, i) ==
    IF i > Len(BandNames) THEN "none"
    ELSE IF /\ Len(shortlisted[BandNames[i]]) < per_band
            /\ in_band(candidate, bands[BandNames[i]])
         THEN BandNames[i]
         ELSE FirstOpenBand(candidate, bands, shortlisted, per_band, i + 1)

(***************************************************************************)
(* shortlist_poems.main: the scan of the pool.                             *)
(***************************************************************************)
Passage(typed, words) == <<Line(typed, typed, words, "")>>

Baselines ==
    { <<Passage(100, 20), Passage(200, 40), Passage(300, 60), Passage(400, 80)>>,
      <<Passage(250, 50), Passage(150, 30), Passage(220, 41)>> }

\* A corpus in which the row of u1 was appended twice.
RepeatedRowsCsv ==
    <<CsvRow("a", "u1", TRUE, 10, TRUE, 5), CsvRow("a", "u1", TRUE, 10, TRUE, 5),
      CsvRow("b", "u2", TRUE, 20, FALSE, 0), CsvRow("c", "", TRUE, 9, TRUE, 1)>>

PoemCsvs ==
    { <<CsvRow("a", "u1", TRUE, 10, TRUE, 5), CsvRow("b", "u2", TRUE, 12, TRUE, 9)>>,
      RepeatedRowsCsv,
      <<CsvRow("b", "u2", TRUE, 70, TRUE, 9), CsvRow("a", "u1", TRUE, 8, TRUE, 9)>>,
      <<CsvRow("b", "u2", TRUE, 12, TRUE, 9), CsvRow("a", "u1", TRUE, 10, TRUE, 9),
        CsvRow("c", "u3", TRUE, 20, TRUE, 5), CsvRow("d", "u4", TRUE, 30, TRUE, 1)>> }

\* The values of --max-fetch: the small ones and the default of line 43.
DefaultMaxFetch == 300
FetchBudgets == 0..MaxFetch \cup {DefaultMaxFetch}

NoBands == [easy |-> Band(0, 0, 0, 0), medium |-> Band(0, 0, 0, 0), hard |-> Band(0, 0, 0, 0)]
ScanIdleIn == [per_band |-> 0, max_fetch |-> 0, bands |-> NoBands, all_poems |-> <<>>]
EmptyShortlist == [easy |-> <<>>, medium |-> <<>>, hard |-> <<>>]

InitScan ==
    /\ s_pc = "idle"
    /\ s_in = ScanIdleIn
    /\ s_pool = <<>>
    /\ s_idx = 1
    /\ s_attempted = 0
    /\ s_shortlisted = EmptyShortlist
    /\ s_log = <<>>

IdleScan == InitScan

\* Lines 188-198: the bands, the poems and the pool, before the loop.
ScanStart ==
    /\ s_pc = "idle"
    /\ \E csv \in PoemCsvs, passages \in Baselines,
          per_band \in 1..MaxPerBand, max_fetch \in FetchBudgets :
           /\ s_in' = [per_band |-> per_band, max_fetch |-> max_fetch,
                       bands |-> load_baseline_ranges(passages),
                       all_poems |-> load_poems(csv)]
           /\ s_pool' = rough_pool(load_poems(csv))
    /\ s_pc' = "scan"
    /\ s_idx' = 1
    /\ s_attempted' = 0
    /\ s_shortlisted' = EmptyShortlist
    /\ s_log' = <<>>
    /\ UNCHANGED <<outsideScan, webVars>>

AllBandsFull ==
    \A i \in DOMAIN BandNames : Len(s_shortlisted[BandNames[i]]) >= s_in.per_band

\* A variant of ScanContinues without the `break` on --max-fetch.
ScanContinuesPastBudget ==
    /\ s_pc = "scan"
    /\ s_idx <= Len(s_pool)
    /\ ~AllBandsFull

\* The loop goes into its body: a row is left and neither `break` is taken.
ScanContinues ==
    /\ s_pc = "scan"
    /\ s_idx <= Len(s_pool)
    /\ ~AllBandsFull
    /\ s_attempted < s_in.max_fetch

LogEntry(link, outcome, gets, answer, placed) ==
    [link |-> link, outcome |-> outcome, gets |-> gets, answer |-> answer,
     placed |-> placed]

\* Lines 225-246 for the text of the row at s_idx: skipped if empty, else scored
\* and put into the first open band that holds it.
PlaceText(text, outcome, gets, answer) ==
    LET row       == s_pool[s_idx]
        candidate == Candidate(row, score_text(text))
        band      == IF text = <<>> THEN "none"
                     ELSE FirstOpenBand(candidate, s_in.bands, s_shortlisted,
                                        s_in.per_band, 1)
    IN  /\ s_shortlisted' =
               IF band = "none" THEN s_shortlisted
               ELSE [s_shortlisted EXCEPT ![band] = Append(@, candidate)]
        /\ s_log' = Append(s_log, LogEntry(row.link, outcome, gets, answer, band))

\* The page of the row is in the cache: it is read, nothing is sent.
ScanCached ==
    /\ ScanContinues
    /\ cache[s_pool[s_idx].link].exists
    /\ s_attempted' = s_attempted + 1
    /\ PlaceText(extract_poem_text(read_text(cache[s_pool[s_idx].link])),
                 "cached", 0, NoResponse)
    /\ s_idx' = s_idx + 1
    /\ UNCHANGED <<outsideScan, webVars, s_pc, s_in, s_pool>>

\* A miss and a GET that raise_for_status accepts: the page is stored and used.
ScanFetched ==
    /\ ScanContinues
    /\ LET url    == s_pool[s_idx].link
           answer == NextAnswer(url)
           html   == ResponseText(url, answer)
       IN  /\ ~cache[url].exists
           /\ ~GetRaises(answer)
           /\ web_script' = [web_script EXCEPT ![url] = RestOfScript(url)]
           /\ net_gets' = [net_gets EXCEPT ![url] = @ + 1]
           /\ cache' = [cache EXCEPT ![url] = write_text(html, platform)]
           /\ PlaceText(extract_poem_text(html), "fetched", 1, answer)
    /\ s_attempted' = s_attempted + 1
    /\ s_idx' = s_idx + 1
    /\ UNCHANGED <<outsideScan, platform, web_page, s_pc, s_in, s_pool>>

\* A variant of ScanFailed that sends the GET again, once, after a failure.
ScanFailedRetries ==
    /\ ScanContinues
    /\ LET url    == s_pool[s_idx].link
           answer == NextAnswer(url)
           again  == IF Len(web_script[url]) >= 2 THEN web_script[url][2] ELSE Timeout
           html   == ResponseText(url, again)
       IN  /\ ~cache[url].exists
           /\ GetRaises(answer)
           /\ web_script' = [web_script EXCEPT ![url] = SubSeq(@, 3, Len(@))]
           /\ net_gets' = [net_gets EXCEPT ![url] = @ + 2]
           /\ IF GetRaises(again)
              THEN /\ cache' = cache
                   /\ s_shortlisted' = s_shortlisted
                   /\ s_log' = Append(s_log, LogEntry(url, "raised", 2, again, "none"))
              ELSE /\ cache' = [cache EXCEPT ![url] = write_text(html, platform)]
                   /\ PlaceText(extract_poem_text(html), "fetched", 2, again)
    /\ s_attempted' = s_attempted + 1
    /\ s_idx' = s_idx + 1
    /\ UNCHANGED <<outsideScan, platform, web_page, s_pc, s_in, s_pool>>

\* A variant of ScanFailed in which the exception is not caught and ends main.
ScanFailedAborts ==
    /\ ScanContinues
    /\ LET url    == s_pool[s_idx].link
           answer == NextAnswer(url)
       IN  /\ ~cache[url].exists
           /\ GetRaises(answer)
           /\ web_script' = [web_script EXCEPT ![url] = RestOfScript(url)]
           /\ net_gets' = [net_gets EXCEPT ![url] = @ + 1]
           /\ s_log' = Append(s_log, LogEntry(url, "raised", 1, answer, "none"))
    /\ s_attempted' = s_attempted + 1
    /\ s_pc' = "failed"
    /\ UNCHANGED <<outsideScan, platform, web_page, cache, s_in, s_pool, s_idx,
                   s_shortlisted>>

\* A miss and a GET that raises: `except Exception: continue`.
ScanFailed ==
    /\ ScanContinues
    /\ LET url    == s_pool[s_idx].link
           answer == NextAnswer(url)
       IN  /\ ~cache[url].exists
           /\ GetRaises(answer)
           /\ web_script' = [web_script EXCEPT ![url] = RestOfScript(url)]
           /\ net_gets' = [net_gets EXCEPT ![url] = @ + 1]
           /\ s_log' = Append(s_log, LogEntry(url, "raised", 1, answer, "none"))
    /\ s_attempted' = s_attempted + 1
    /\ s_idx' = s_idx + 1
    /\ UNCHANGED <<outsideScan, platform, web_page, cache, s_pc, s_in, s_pool,
                   s_shortlisted>>

\* The loop ends (a `break`, or no row left) and the shortlist is written.
ScanEnd ==
    /\ s_pc = "scan"
    /\ ~ScanContinues
    /\ s_pc' = "done"
    /\ UNCHANGED <<outsideScan, webVars, s_in, s_pool, s_idx, s_attempted, s_shortlisted,
                   s_log>>

NextScan ==
    \/ ScanStart
    \/ ScanCached
    \/ ScanFetched
    \/ ScanFailed
    \/ ScanEnd

(***************************************************************************)
(* load_baseline_ranges called on its own, for mod files of zero to        *)
(* MaxBaseline passages and for one of six.                                *)
(***************************************************************************)
PassageKinds ==
    {Passage(50, 10), Passage(51, 12), Passage(53, 10), Passage(60, 15), Passage(100, 20)}

SixPassages ==
    <<Passage(50, 10), Passage(60, 12), Passage(70, 14), Passage(80, 16), Passage(90, 18),
      Passage(100, 20)>>

BaselineSets ==
    UNION {[1..n -> PassageKinds] : n \in 0..MaxBaseline} \cup {SixPassages}

NotComputed == [outcome |-> "none", bands |-> NoBands]

InitBands ==
    /\ b_in \in BaselineSets
    /\ b_out = NotComputed

IdleBands ==
    /\ b_in = <<>>
    /\ b_out = NotComputed

\* No passages: ValueError (line 64). One passage: quantiles raises StatisticsError.
BandsRaise ==
    /\ b_out = NotComputed
    /\ Len(b_in) < 2
    /\ b_out' = [outcome |-> "raised", bands |-> NoBands]
    /\ UNCHANGED <<outsideBands, b_in>>

BandsReturn ==
    /\ b_out = NotComputed
    /\ Len(b_in) >= 2
    /\ b_out' = [outcome |-> "returned", bands |-> load_baseline_ranges(b_in)]
    /\ UNCHANGED <<outsideBands, b_in>>

NextBands ==
    \/ BandsRaise
    \/ BandsReturn

(***************************************************************************)
(* 3-build_band_mods.extract_poem_text. The page is the sequence of its td *)
(* elements in document order; a line's prefix is the text it starts with  *)
(* when that matters to the cleaning ("By ", "Public Domain Poetry", a     *)
(* marker, "Extra Info:") or the title when the line is the title, else "".*)
(* A block is named by the position of its td.                             *)
(***************************************************************************)
PrimaryMinChars == 250
FallbackMinChars == 180
MinBlockLines == 6
MaxTds == 3

\* sum(len(x) for x in lines)
LineChars(td) == SumOver(td.lines, "len")

\* The first loop over the tds, lines 57-66.
PrimaryBlocks(tds) ==
    {i \in DOMAIN tds :
        /\ CellTextLen(tds[i]) >= PrimaryMinChars
        /\ ~tds[i].marker
        /\ Len(tds[i].lines) >= MinBlockLines}

\* The second loop, lines 69-75: a length and a line count, nothing else.
FallbackBlocks(tds) ==
    {i \in DOMAIN tds :
        /\ CellTextLen(tds[i]) >= FallbackMinChars
        /\ Len(tds[i].lines) >= MinBlockLines}

\* `blocks` at line 77.
Blocks(tds) == IF PrimaryBlocks(tds) # {} THEN PrimaryBlocks(tds) ELSE FallbackBlocks(tds)

\* A variant of BestBlock in which the last of the greatest wins.
BestBlockLastWins(tds, blocks) ==
    CHOOSE i \in blocks :
        /\ \A j \in blocks : LineChars(tds[j]) <= LineChars(tds[i])
        /\ \A j \in blocks : j > i => LineChars(tds[j]) < LineChars(tds[i])

\* max(blocks, key=...): Python's max keeps the first of the greatest.
BestBlock(tds, blocks) ==
    CHOOSE i \in blocks :
        /\ \A j \in blocks : LineChars(tds[j]) <= LineChars(tds[i])
        /\ \A j \in blocks : j < i => LineChars(tds[j]) < LineChars(tds[i])

RECURSIVE CleanLines(_, _, _, _)
CleanLines(lines, title, dropped_title, dropped_byline) ==
    IF lines = <<>> THEN <<>>
    ELSE LET line == Head(lines)
             rest == Tail(lines)
         IN  IF ~dropped_title /\ title # "" /\ line.prefix = title
             THEN CleanLines(rest, title, TRUE, dropped_byline)
             ELSE IF ~dropped_byline /\ line.prefix = "By "
             THEN CleanLines(rest, title, dropped_title, TRUE)
             ELSE IF line.prefix \in {"Sponsored Links", "Public Domain Poetry"}
             THEN CleanLines(rest, title, dropped_title, dropped_byline)
             ELSE <<line>> \o CleanLines(rest, title, dropped_title, dropped_byline)

clean_poem_lines(lines, title) == CleanLines(lines, title, FALSE, FALSE)

\* re.sub(r"\s*Extra\s+Info:.*$", "", text): the text ends before "Extra Info:".
RECURSIVE StripExtraInfo(_)
StripExtraInfo(lines) ==
    IF lines = <<>> \/ Head(lines).prefix = "Extra Info:" THEN <<>>
    ELSE <<Head(lines)>> \o StripExtraInfo(Tail(lines))

NotExtracted == [outcome |-> "none", block |-> 0, text |-> <<>>]

\* The block chosen at line 80 (0 when there is none) and the lines of the text
\* returned, which the code joins with " ".
build_extract_poem_text(tds, title) ==
    IF Blocks(tds) = {}
    THEN [outcome |-> "returned", block |-> 0, text |-> <<>>]
    ELSE LET best == BestBlock(tds, Blocks(tds))
         IN  [outcome |-> "returned",
              block |-> best,
              text |-> StripExtraInfo(clean_poem_lines(tds[best].lines, title))]

Verse(n) == Line(n, n - 4, n \div 6, "")
Verses(k, n) == [i \in 1..k |-> Verse(n)]

PoemTitle == "The Poem"
WideBlock ==
    Td(<<Line(8, 8, 2, PoemTitle), Line(12, 12, 3, "By ")>> \o Verses(4, 70), FALSE)
TallBlock ==
    Td(Verses(6, 43) \o <<Verse(34), Line(8, 8, 2, "Extra Info:")>>, FALSE)
ThinBlock == Td(Verses(6, 32), FALSE)
MenuBlock ==
    Td(<<Line(9, 9, 2, "Main Menu")>> \o Verses(6, 50)
           \o <<Line(15, 15, 2, "Sponsored Links")>>, TRUE)
StubBlock == Td(Verses(3, 100), FALSE)

BuildCells == {WideBlock, TallBlock, ThinBlock, MenuBlock, StubBlock}
BuildPages == UNION {[1..n -> BuildCells] : n \in 0..MaxTds}

InitExtract ==
    /\ x_in \in [tds : BuildPages, title : {"", PoemTitle}]
    /\ x_out = NotExtracted

IdleExtract ==
    /\ x_in = [tds |-> <<>>, title |-> ""]
    /\ x_out = NotExtracted

\* No td passes either loop: line 78 returns "".
ExtractNothing ==
    /\ x_out = NotExtracted
    /\ Blocks(x_in.tds) = {}
    /\ x_out' = build_extract_poem_text(x_in.tds, x_in.title)
    /\ UNCHANGED <<outsideExtract, x_in>>

\* Lines 80-97: the best block is cleaned and returned.
ExtractBlock ==
    /\ x_out = NotExtracted
    /\ Blocks(x_in.tds) # {}
    /\ x_out' = build_extract_poem_text(x_in.tds, x_in.title)
    /\ UNCHANGED <<outsideExtract, x_in>>

NextExtract ==
    \/ ExtractNothing
    \/ ExtractBlock

NextBackoff == CallComputeBackoff

NextFetch ==
    \/ FetchCall
    \/ FetchOk
    \/ FetchTransient
    \/ FetchHttpError
    \/ FetchOtherStatus
    \/ FetchTransportError
    \/ FetchExhausted

InitSpecBackoff ==
    InitBackoff /\ IdleFetch /\ IdleHarvest /\ IdleWeb /\ IdleCache /\ IdleScan /\ IdleBands
        /\ IdleExtract
InitSpecFetch ==
    IdleBackoff /\ IdleFetch /\ IdleHarvest /\ IdleWeb /\ IdleCache /\ IdleScan /\ IdleBands
        /\ IdleExtract
InitSpecHarvest ==
    IdleBackoff /\ IdleFetch /\ InitHarvest /\ IdleWeb /\ IdleCache /\ IdleScan /\ IdleBands
        /\ IdleExtract
InitSpecRerun ==
    IdleBackoff /\ IdleFetch /\ InitRerun /\ IdleWeb /\ IdleCache /\ IdleScan /\ IdleBands
        /\ IdleExtract
InitSpecCache ==
    IdleBackoff /\ IdleFetch /\ IdleHarvest /\ InitWeb /\ InitCache /\ IdleScan /\ IdleBands
        /\ IdleExtract
InitSpecBands ==
    IdleBackoff /\ IdleFetch /\ IdleHarvest /\ IdleWeb /\ IdleCache /\ IdleScan /\ InitBands
        /\ IdleExtract
InitSpecExtract ==
    IdleBackoff /\ IdleFetch /\ IdleHarvest /\ IdleWeb /\ IdleCache /\ IdleScan /\ IdleBands
        /\ InitExtract
InitSpecScan ==
    IdleBackoff /\ IdleFetch /\ IdleHarvest /\ InitWeb /\ IdleCache /\ InitScan /\ IdleBands
        /\ IdleExtract

SpecBackoff == InitSpecBackoff /\ [][NextBackoff]_vars
SpecFetch == InitSpecFetch /\ [][NextFetch]_vars
SpecHarvest == InitSpecHarvest /\ [][NextHarvest]_vars
SpecRerun == InitSpecRerun /\ [][NextRerun]_vars
SpecCache == InitSpecCache /\ [][NextCache]_vars
SpecBands == InitSpecBands /\ [][NextBands]_vars
SpecScan == InitSpecScan /\ [][NextScan]_vars
SpecExtract == InitSpecExtract /\ [][NextExtract]_vars

\* The scan as a running program: once main is in its loop, the loop goes on
\* (no step of it blocks: a GET has a timeout, a sleep is finite). The site is
\* one with an easy, a medium and a hard poem; u1 may be in the cache, u2 may
\* answer 404.
InitWebFair ==
    /\ platform = "posix"
    /\ web_page = WithFixed([u \in Urls |-> IF u = "u1" THEN <<EasyCell, CR>>
                                             ELSE <<MenuCell, LF, PoemCell, LF>>],
                            FixedPages)
    /\ \E script \in {<<Answer(200)>>, <<Answer(404), Answer(204)>>} :
           web_script = [u \in AllUrls |-> IF u = "u2" THEN script ELSE <<Answer(200)>>]
    /\ net_gets = [u \in AllUrls |-> 0]
    /\ \E file \in {NoCacheFile, write_text(<<EasyCell, CR>>, "posix")} :
           cache = [u \in AllUrls |-> IF u = "u1" THEN file ELSE NoCacheFile]

ScanLoop == ScanCached \/ ScanFetched \/ ScanFailed \/ ScanEnd

InitSpecScanFair ==
    IdleBackoff /\ IdleFetch /\ IdleHarvest /\ InitWebFair /\ IdleCache /\ InitScan /\ IdleBands
        /\ IdleExtract
SpecScanFair == InitSpecScanFair /\ [][NextScan]_vars /\ WF_vars(ScanLoop)


(***************************************************************************)
(* Properties of fetch_html_with_retries.                                  *)
(***************************************************************************)
GetIndexes(trace) == {i \in DOMAIN trace : trace[i].ev = "get"}
Got200(trace) == \E i \in GetIndexes(trace) : trace[i].status = 200

\* A GET that failed: an exception, or a response with an error status.
FailedGetIndexes(trace) ==
    {i \in GetIndexes(trace) :
        \/ trace[i].result = "exception"
        \/ trace[i].status \in TransientStatuses
        \/ RaisesForStatus(trace[i].status)}

LastOf(S) == CHOOSE i \in S : \A j \in S : j <= i

\* C1: a call issues at most max_retries GET requests; it returns only after a
\* GET answered 200, and a call that ended without any 200 ended by raising,
\* after exactly max_retries requests.
C1_FetchFailsWithout200 ==
    /\ Cardinality(GetIndexes(f_trace)) <= f_args.max_retries
    /\ f_pc = "loop" => Cardinality(GetIndexes(f_trace)) = f_attempt - 1
    /\ f_pc = "returned" =>
           /\ f_trace # <<>>
           /\ f_trace[Len(f_trace)].ev = "get"
           /\ f_trace[Len(f_trace)].status = 200
    /\ (f_pc \in {"returned", "raised"} /\ ~Got200(f_trace)) => f_pc = "raised"
    /\ f_pc = "raised" =>
           /\ ~Got200(f_trace)
           /\ Cardinality(GetIndexes(f_trace)) = f_args.max_retries

\* C1 witness: three attempts, one of them a status that is no error (204),
\* none a 200, and the call has raised.
C1_Witness ==
    /\ f_pc = "raised"
    /\ f_args.max_retries = 3
    /\ Cardinality(GetIndexes(f_trace)) = 3
    /\ \E i \in GetIndexes(f_trace) : f_trace[i].status = 204

\* C2 (as claimed): when the call raises after failed attempts, the cause of the
\* RuntimeError is the error of the last failed attempt.
C2_CauseIsLastFailure ==
    (f_pc = "raised" /\ FailedGetIndexes(f_trace) # {}) =>
        /\ f_cause # NoError
        /\ f_cause.attempt = f_trace[LastOf(FailedGetIndexes(f_trace))].attempt

(***************************************************************************)
(* Properties of compute_backoff_seconds.                                  *)
(***************************************************************************)
\* Retry-After texts and the delay each denotes, in milliseconds.
PositiveRetryAfter ==
    { <<<<"3">>, 3000>>, <<<<"1", ".", "5">>, 1500>>, <<<<"1", "2", "0">>, 120000>> }
NonPositiveRetryAfter == { <<"0">>, <<"-", "5">> }
UnusableRetryAfter == { <<>>, <<"x">>, <<"3", "s">> }

CarriesRetryAfter(response, text) ==
    response.kind = "http" /\ response.has_ra /\ response.ra = text

HasNoRetryAfter(response) == response.kind = "none" \/ ~response.has_ra

ExpectedExponential(attempt, base_delay) ==
    IF base_delay * Pow2(attempt - 1) > 60000 THEN 60000
    ELSE base_delay * Pow2(attempt - 1)

\* C3: a Retry-After header that parses to a positive number d gives a wait of
\* exactly d, whatever the attempt and the base delay.
C3_RetryAfterVerbatim ==
    bo_out.called =>
        \A p \in PositiveRetryAfter :
            CarriesRetryAfter(bo_in.response, p[1]) => bo_out.value = p[2]

\* C3 witness: header "3" on attempt 4 with a base delay of 2 s gave exactly 3 s.
C3_Witness ==
    /\ bo_out.called
    /\ CarriesRetryAfter(bo_in.response, <<"3">>)
    /\ bo_in.response.status = 429
    /\ bo_in.attempt = 4
    /\ bo_in.base_delay = 2000
    /\ bo_out.value = 3000

\* C4 (as claimed): with the header absent, unparsable, zero or negative the wait
\* is at least the exponential part.
C4_NonPositiveFallsBack ==
    (/\ bo_out.called
     /\ \/ HasNoRetryAfter(bo_in.response)
        \/ bo_in.response.ra \in UnusableRetryAfter \cup NonPositiveRetryAfter)
        => bo_out.value >= ExpectedExponential(bo_in.attempt, bo_in.base_delay)

\* C4 (amended): with the header absent, empty or unparsable the wait is at least
\* the exponential part; a header that parses to zero or a negative number is
\* used, clamped to zero: the wait is 0.
C4_UnparsableFallsBackNonPositiveIsZero ==
    bo_out.called =>
        /\ (\/ HasNoRetryAfter(bo_in.response)
            \/ bo_in.response.ra \in UnusableRetryAfter)
               => bo_out.value >= ExpectedExponential(bo_in.attempt, bo_in.base_delay)
        /\ (~HasNoRetryAfter(bo_in.response)
               /\ bo_in.response.ra \in NonPositiveRetryAfter)
               => bo_out.value = 0

\* C4 witness: header "-5" with a base delay of 2 s on attempt 3: the wait is 0.
C4_Witness ==
    /\ bo_out.called
    /\ CarriesRetryAfter(bo_in.response, <<"-", "5">>)
    /\ bo_in.base_delay = 2000
    /\ bo_in.attempt = 3
    /\ bo_out.value = 0

HoldsPage(file, n) ==
    /\ file.exists
    /\ file.doc.kind = "object"
    /\ file.doc.has
    /\ file.doc.vtype \in {"int", "bool"}
    /\ file.doc.v = n
    /\ n >= 1

C10_FirstPageFetched ==
    Len(h_fetched) >= 1 =>
        /\ (h_args.resume /\ h_loaded.some) =>
               h_fetched[1] = (IF h_loaded.v > h_args.start_page THEN h_loaded.v
                               ELSE h_args.start_page)
        /\ (~h_args.resume \/ ~h_loaded.some) => h_fetched[1] = h_args.start_page
        /\ (\A n \in 1..(MaxPage + 1) : ~HoldsPage(h_ckpt0, n)) =>
               h_fetched[1] = h_args.start_page

\* C10 witness: start_page 1, resume on and a checkpoint of 2: page 2 was fetched first.
C10_Witness ==
    /\ h_args.resume
    /\ h_args.start_page = 1
    /\ h_loaded.some
    /\ h_loaded.v = 2
    /\ h_fetched = <<2>>


(***************************************************************************)
(* Properties of the page cache.                                           *)
(***************************************************************************)
LastCall(calls) == calls[Len(calls)]

\* C6 (as claimed): of two successive calls of one fetcher for one URL, the first
\* on an empty cache entry and both returning, the first sends the only GET and
\* both return the same content.
C6_TwoCallsOneGetSameContent ==
    \A i \in 1..(Len(c_calls) - 1) :
        LET first  == c_calls[i]
            second == c_calls[i + 1]
        IN  (/\ first.url = second.url
             /\ first.fn = second.fn
             /\ ~first.hit
             /\ first.outcome = "returned"
             /\ second.outcome = "returned")
                =>  /\ first.gets + second.gets = 1
                    /\ second.gets = 0
                    /\ first.value = second.value

\* A step that adds a call to the history.
CallStep == Len(c_calls') = Len(c_calls) + 1

C7_Step ==
    /\ \A u \in Urls : cache[u].exists => cache'[u] = cache[u]
    /\ (CallStep /\ LastCall(c_calls').outcome = "raised") =>
           /\ cache' = cache
           /\ ~cache'[LastCall(c_calls').url].exists
    /\ \A u \in Urls :
           (~cache[u].exists /\ cache'[u].exists) =>
               /\ CallStep
               /\ LastCall(c_calls').url = u
               /\ LastCall(c_calls').outcome = "returned"
               /\ net_gets'[u] = net_gets[u] + 1
               /\ ~GetRaises(NextAnswer(u))

\* C7: a cache entry appears only in a call whose GET of that URL did not raise;
\* a call that raises leaves no entry for its URL, and an entry that exists is
\* never changed or removed by a later call.
C7_OnlySuccessfulFetchWrites == [][C7_Step]_vars

\* C7 witness: a call for a URL has raised, the URL has no cache entry, and the
\* other URL's entry, written by an earlier call, has been read by a later one.
C7_Witness ==
    /\ Len(c_calls) = 3
    /\ c_calls[1].url = "u1" /\ c_calls[1].outcome = "returned" /\ ~c_calls[1].hit
    /\ c_calls[2].url = "u2" /\ c_calls[2].outcome = "raised"
    /\ c_calls[3].url = "u1" /\ c_calls[3].hit
    /\ cache["u1"].exists
    /\ ~cache["u2"].exists


(***************************************************************************)
(* Properties of the classifier scan.                                      *)
(***************************************************************************)
IsTransientFailure(answer) ==
    answer.kind = "none" \/ answer.status \in TransientStatuses

InSomeBand(link) ==
    \E i \in DOMAIN BandNames :
        \E k \in DOMAIN s_shortlisted[BandNames[i]] :
            s_shortlisted[BandNames[i]][k].link = link

KilledInSave == h_pc = "save" /\ h_pc' = "killed"

\* A save_checkpoint that ran to its end.
SaveStep == h_pc = "save" /\ h_pc' = "pace"

C11_Step ==
    (KilledInSave /\ load_checkpoint(ckpt).some) =>
        load_checkpoint(ckpt') \in {load_checkpoint(ckpt), Some(h_page + 1)}

\* C11 (as claimed): when a run is killed inside a save that replaces page a by
\* page b, load_checkpoint of the file left behind returns a or b.
C11_SaveIsAtomic == [][C11_Step]_vars

ValidArgs(a) == a.end_page >= a.start_page

\* The number of lines of the corpus that are rows of page p.
RowCount(lines, p) ==
    Cardinality({i \in DOMAIN lines : lines[i].kind = "row" /\ lines[i].page = p})

\* Page p has all its rows in the corpus; some row of page p is there twice.
PagePresent(p) ==
    \A k \in DOMAIN parse_poem_rows(site[p], p) :
        \E i \in DOMAIN corpus.lines : corpus.lines[i] = parse_poem_rows(site[p], p)[k]

PageRepeated(p) ==
    \E i, j \in DOMAIN corpus.lines :
        /\ i < j
        /\ corpus.lines[i] = corpus.lines[j]
        /\ corpus.lines[i].kind = "row"
        /\ corpus.lines[i].page = p

\* The second run has ended normally, with the arguments of the first run, which
\* had resume on, began with no checkpoint and no corpus, and was killed.
KilledThenCompleted ==
    /\ r_rerun
    /\ r_prev.ended = "killed"
    /\ r_prev.ckpt0 = NoFile
    /\ r_prev.corpus0 = NoCorpus
    /\ h_args = r_prev.args
    /\ h_args.resume
    /\ h_pc = "done"

\* C12 (as claimed): after a killed run and its rerun to completion, every page of
\* [start, end] has its rows in the corpus and at most one page has rows twice.
C12_AtMostOnePageRepeated ==
    KilledThenCompleted =>
        /\ \A p \in h_args.start_page..h_args.end_page : PagePresent(p)
        /\ Cardinality({p \in 1..MaxPage : PageRepeated(p)}) <= 1

\* The second run has fetched a page and the first run left a checkpoint of page n.
SecondRunAfter(n) ==
    /\ r_rerun
    /\ HoldsPage(r_prev.ckpt, n)
    /\ Len(h_fetched) >= 1

\* C13 (as claimed): whatever its arguments, the second of two runs first fetches
\* a page that is at least the page the checkpoint held when the first run ended.
C13_SecondRunNeverBehind ==
    \A n \in 1..(MaxPage + 1) : SecondRunAfter(n) => h_fetched[1] >= n

\* C13 (amended): with resume on, the second run first fetches a page that is at
\* least the checkpoint of the first run; with resume off it first fetches its
\* start_page, whatever that checkpoint is.
C13_SecondRunNeverBehindWithResume ==
    \A n \in 1..(MaxPage + 1) :
        SecondRunAfter(n) =>
            /\ h_args.resume => h_fetched[1] >= n
            /\ ~h_args.resume => h_fetched[1] = h_args.start_page

\* C13 witness: the first run ended normally leaving checkpoint 2; the second run,
\* with start_page 1 and resume on, fetched page 2 first.
C13_Witness ==
    /\ r_rerun
    /\ r_prev.ended = "done"
    /\ HoldsPage(r_prev.ckpt, 2)
    /\ h_args.resume
    /\ h_args.start_page = 1
    /\ h_fetched = <<2>>

C14_Step ==
    (SaveStep /\ load_checkpoint(ckpt).some) =>
        /\ load_checkpoint(ckpt').some
        /\ load_checkpoint(ckpt').v >= load_checkpoint(ckpt).v

\* C14 (as claimed): every value a run stores into the checkpoint is at least the
\* value the file held just before, the value left by an earlier run included.
C14_NeverDecreases == [][C14_Step]_vars

C14_StepWithResume ==
    (SaveStep /\ load_checkpoint(ckpt).some /\ (h_args.resume \/ h_page > h_start)) =>
        /\ load_checkpoint(ckpt').some
        /\ load_checkpoint(ckpt').v > load_checkpoint(ckpt).v

\* C14 (amended): in a run with resume on, every value stored is greater than the
\* value the file held just before; in a run with resume off this holds for every
\* write after the run's first one.
C14_NeverDecreasesWithResume == [][C14_StepWithResume]_vars

\* C14 witness: a run with resume on found checkpoint 2, completed page 2 and has
\* stored 3.
C14_Witness ==
    /\ h_args.resume
    /\ HoldsPage(h_ckpt0, 2)
    /\ h_page = 2
    /\ h_pc = "pace"
    /\ HoldsPage(ckpt, 3)


(***************************************************************************)
(* Properties of a harvest run: rejected arguments, fatal pages, the       *)
(* corpus of a clean run.                                                  *)
(***************************************************************************)
\* C15: a run started with end_page < start_page fails having asked for no page,
\* loaded no checkpoint, and left the corpus and the checkpoint as it found them.
C15_RejectedBeforeAnyEffect ==
    (h_pc # "idle" /\ ~ValidArgs(h_args)) =>
        /\ h_pc = "failed"
        /\ h_fetched = <<>>
        /\ h_sleeps = 0
        /\ ~h_loaded.called
        /\ corpus = r_corpus0
        /\ ckpt = h_ckpt0

\* C15 witness: a run with start_page 2 and end_page 1 has failed; there is still
\* no corpus file, and the checkpoint file still holds 2.
C15_Witness ==
    /\ h_pc = "failed"
    /\ h_args.start_page = 2
    /\ h_args.end_page = 1
    /\ corpus = NoCorpus
    /\ HoldsPage(ckpt, 2)

\* The run has failed on page h_page, in the fetch or in the parse.
FailedOnPage == h_pc = "failed" /\ ValidArgs(h_args)

RECURSIVE RowsOfPages(_, _)
RowsOfPages(s, e) ==
    IF s > e THEN <<>> ELSE parse_poem_rows(site[s], s) \o RowsOfPages(s + 1, e)

\* C17: a run that found no checkpoint and no corpus and ended normally leaves a
\* corpus of the header followed by the rows of pages start_page..end_page in
\* order, and checkpoint end_page + 1.
C17_CleanRunCorpus ==
    (/\ h_pc = "done"
     /\ ValidArgs(h_args)
     /\ h_ckpt0 = NoFile
     /\ r_corpus0 = NoCorpus)
        =>  /\ corpus.exists
            /\ corpus.lines = <<HeaderLine>> \o RowsOfPages(h_args.start_page, h_args.end_page)
            /\ h_fetched = [i \in 1..(h_args.end_page - h_args.start_page + 1) |->
                               h_args.start_page + i - 1]
            /\ ckpt = save_checkpoint(h_args.end_page + 1)

\* C17 witness: pages 1 and 2 of three good rows each, harvested with delay 0 from
\* nothing: a header and six rows, checkpoint 3.
C17_Witness ==
    /\ h_pc = "done"
    /\ h_ckpt0 = NoFile
    /\ r_corpus0 = NoCorpus
    /\ h_args.start_page = 1
    /\ h_args.end_page = 2
    /\ h_args.delay = 0
    /\ Len(parse_poem_rows(site[1], 1)) = 3
    /\ Len(parse_poem_rows(site[2], 2)) = 3
    /\ Len(corpus.lines) = 7
    /\ HoldsPage(ckpt, 3)


(***************************************************************************)
(* Properties of the baseline bands.                                       *)
(***************************************************************************)
CharRange(band) == <<band.char_min, band.char_max>>

\* C18 (as claimed): for typed-character values 50, 60, 70, 80, 90, 100 the
\* character ranges are easy [50, 70], medium [71, 90] and hard [91, 180].
C18_TertilesAre70And90 ==
    (b_in = SixPassages /\ b_out.outcome = "returned") =>
        /\ CharRange(b_out.bands.easy) = <<50, 70>>
        /\ CharRange(b_out.bands.medium) = <<71, 90>>
        /\ CharRange(b_out.bands.hard) = <<91, 180>>

\* C18 (amended): for typed-character values 50, 60, 70, 80, 90, 100 the tertiles
\* are int(66.67) = 66 and int(83.33) = 83, and the character ranges are
\* easy [50, 66], medium [67, 83] and hard [84, 180].
C18_TertilesAre66And83 ==
    (b_in = SixPassages /\ b_out.outcome = "returned") =>
        /\ CharRange(b_out.bands.easy) = <<50, 66>>
        /\ CharRange(b_out.bands.medium) = <<67, 83>>
        /\ CharRange(b_out.bands.hard) = <<84, 180>>

\* C18 witness: the bands of that baseline have been computed.
C18_Witness ==
    /\ b_in = SixPassages
    /\ b_out.outcome = "returned"
    /\ b_out.bands.hard.char_max = 100 + HardCharSlack

\* The typed-character values of the passages.
CharValues == {score_text(b_in[i]).typed_chars : i \in DOMAIN b_in}
GlobalMin == CHOOSE v \in CharValues : \A w \in CharValues : v <= w
GlobalMax == CHOOSE v \in CharValues : \A w \in CharValues : v >= w

InCharRange(v, band) == band.char_min <= v /\ v <= band.char_max

\* C19: for three passages or more, every integer from the least to the greatest
\* typed-character value lies in the character range of exactly one band, easy
\* starts at the least value, medium starts right after the end of easy, hard
\* right after the end of medium, and hard ends at the greatest value + 80.
C19_BandsPartitionRange ==
    (b_out.outcome = "returned" /\ Len(b_in) >= 3) =>
        LET bands == b_out.bands
        IN  /\ bands.easy.char_min = GlobalMin
            /\ bands.medium.char_min = bands.easy.char_max + 1
            /\ bands.hard.char_min = bands.medium.char_max + 1
            /\ bands.hard.char_max = GlobalMax + 80
            /\ \A v \in GlobalMin..GlobalMax :
                   Cardinality({i \in DOMAIN BandNames :
                                   InCharRange(v, bands[BandNames[i]])}) = 1

\* C19 witness: four passages of which the bands have been computed, each band
\* holding one of the typed-character values.
C19_Witness ==
    /\ b_out.outcome = "returned"
    /\ Len(b_in) = 4
    /\ \A i \in DOMAIN BandNames :
           \E v \in CharValues : InCharRange(v, b_out.bands[BandNames[i]])

(***************************************************************************)
(* Properties of the placement of candidates in bands.                     *)
(***************************************************************************)
\* The text the iteration recorded in entry e worked on.
TextOf(e) ==
    IF e.outcome = "cached" THEN extract_poem_text(read_text(cache[e.link]))
    ELSE IF e.outcome = "fetched" THEN extract_poem_text(ResponseText(e.link, e.answer))
    ELSE <<>>

\* The candidates placed in band b before iteration i.
PlacedBefore(b, i) == Cardinality({j \in 1..(i - 1) : s_log[j].placed = b})

\* Band b takes the candidate of iteration i: not full yet, both metrics in range.
Takes(b, i) ==
    LET m == score_text(TextOf(s_log[i]))
    IN  /\ PlacedBefore(b, i) < s_in.per_band
        /\ s_in.bands[b].char_min <= m.typed_chars
        /\ m.typed_chars <= s_in.bands[b].char_max
        /\ s_in.bands[b].word_min <= m.words
        /\ m.words <= s_in.bands[b].word_max

ExpectedBand(i) ==
    IF TextOf(s_log[i]) = <<>> THEN "none"
    ELSE IF Takes("easy", i) THEN "easy"
    ELSE IF Takes("medium", i) THEN "medium"
    ELSE IF Takes("hard", i) THEN "hard"
    ELSE "none"

\* The links of the candidates of band b, and of the iterations that placed one there.
BandLinks(b) == [k \in DOMAIN s_shortlisted[b] |-> s_shortlisted[b][k].link]

RECURSIVE LinksPlaced(_, _)
LinksPlaced(b, i) ==
    IF i > Len(s_log) THEN <<>>
    ELSE IF s_log[i].placed = b THEN <<s_log[i].link>> \o LinksPlaced(b, i + 1)
    ELSE LinksPlaced(b, i + 1)

\* C20: each iteration places its candidate in the first of easy, medium, hard that
\* is not full and whose two ranges hold its metrics, or nowhere; a band never
\* holds more than per_band candidates, its members satisfy its two ranges, and
\* they stand in the order in which they were scanned, each candidate once.
C20_FirstOpenBandInScanOrder ==
    /\ \A i \in DOMAIN s_log : s_log[i].placed = ExpectedBand(i)
    /\ \A n \in DOMAIN BandNames :
           LET b == BandNames[n]
           IN  /\ Len(s_shortlisted[b]) <= s_in.per_band
               /\ BandLinks(b) = LinksPlaced(b, 1)
               /\ \A k \in DOMAIN s_shortlisted[b] :
                      in_band(s_shortlisted[b][k], s_in.bands[b])
    /\ \A i, j \in DOMAIN s_log : i # j => s_log[i].link # s_log[j].link

\* C20 witness: two candidates with the same metrics, per_band 1: the first is in
\* medium, the second, scanned when medium was full, is in no band.
C20_Witness ==
    /\ s_in.per_band = 1
    /\ Len(s_log) = 2
    /\ s_log[1].placed = "medium"
    /\ s_log[2].placed = "none"
    /\ TextOf(s_log[2]) = TextOf(s_log[1])
    /\ Len(s_shortlisted.medium) = 1
    /\ s_shortlisted.medium[1].link = s_log[1].link

(***************************************************************************)
(* Sleeps of fetch_html_with_retries, read off the history of one call.    *)
(***************************************************************************)
SleepIndexes(trace) == {i \in DOMAIN trace : trace[i].ev = "sleep"}
FetchEnded == f_pc \in {"returned", "raised"}

\* C23: a call that has ended after k GET requests has slept at most k - 1
\* times, so that no sleep follows its final attempt.
C23_SleepsOnlyBetweenAttempts ==
    FetchEnded =>
        /\ Cardinality(SleepIndexes(f_trace)) <= Cardinality(GetIndexes(f_trace)) - 1
        /\ f_trace[Len(f_trace)].ev = "get"

\* C30: within one call, the event after every GET that is not the last event
\* of the call is a backoff sleep, whatever the GET's outcome was.
C30_SleepBetweenGets ==
    \A i \in 1..(Len(f_trace) - 1) :
        f_trace[i].ev = "get" => f_trace[i + 1].ev = "sleep"

(***************************************************************************)
(* Order of append, checkpoint and pacing within one harvest run.          *)
(***************************************************************************)
\* The step in which the run asks for a page after the first one of the run.
FetchStepOfLaterPage == h_pc = "fetch" /\ h_fetched' # h_fetched /\ h_page > h_start

C22_Step ==
    /\ ckpt' # ckpt => SaveStep
    /\ SaveStep =>
           /\ ckpt' = save_checkpoint(h_page + 1)
           /\ corpus.lines =
                  ensure_csv_header(r_corpus0).lines \o RowsOfPages(h_start, h_page)
    /\ FetchStepOfLaterPage => ckpt = save_checkpoint(h_page)

\* C22: a run writes the checkpoint only in save_checkpoint(page + 1), and when
\* it does the corpus already holds, after what was there at the start, the rows
\* of every page from the effective start page to page; a later page is fetched
\* only while the checkpoint holds that page's number.
C22_CheckpointAfterAppend == [][C22_Step]_vars

\* C22 witness: a run from page 1 has just saved checkpoint 3 after page 2, with
\* three rows of page 1 and three rows of page 2 in the corpus.
C22_Witness ==
    /\ h_pc = "pace"
    /\ h_start = 1
    /\ h_page = 2
    /\ h_fetched = <<1, 2>>
    /\ HoldsPage(ckpt, 3)
    /\ RowCount(corpus.lines, 1) = 3
    /\ RowCount(corpus.lines, 2) = 3

\* C24: a run with delay > 0 that ended normally after n pages has slept n - 1
\* times, none of them after the final page.
C24_NoSleepAfterFinalPage ==
    (h_pc = "done" /\ h_args.delay > 0 /\ h_fetched # <<>>) =>
        h_sleeps = Len(h_fetched) - 1

\* C29: a run with resume on whose loaded checkpoint is beyond end_page (and
\* end_page >= start_page) ends normally at once: no page is fetched, no sleep
\* is made, the corpus gets no line beyond the header ensure_csv_header
\* guarantees, and the checkpoint file is the one found.
C29_ResumePastEndIsNoOp ==
    (/\ h_pc # "idle"
     /\ ValidArgs(h_args)
     /\ h_args.resume
     /\ load_checkpoint(h_ckpt0).some
     /\ load_checkpoint(h_ckpt0).v > h_args.end_page)
        =>  /\ h_pc = "done"
            /\ h_fetched = <<>>
            /\ h_sleeps = 0
            /\ corpus = ensure_csv_header(r_corpus0)
            /\ ckpt = h_ckpt0

\* C29 witness: checkpoint 3 found, --start-page 1 --end-page 2 with resume: the
\* run is over with nothing fetched and the checkpoint still 3.
C29_Witness ==
    /\ h_pc = "done"
    /\ h_args.resume
    /\ h_args.start_page = 1
    /\ h_args.end_page = 2
    /\ HoldsPage(h_ckpt0, 3)
    /\ h_loaded = load_checkpoint(h_ckpt0)
    /\ h_start = 3
    /\ h_fetched = <<>>
    /\ HoldsPage(ckpt, 3)

(***************************************************************************)
(* Properties of 3-build_band_mods.extract_poem_text.                      *)
(***************************************************************************)
Extracted == x_out.outcome = "returned"
SelectedTd == x_in.tds[x_out.block]

\* A td that passes the filter of the spec at the given length threshold.
Qualifies(td, min_chars) ==
    /\ CellTextLen(td) >= min_chars
    /\ ~td.marker
    /\ Len(td.lines) >= MinBlockLines

SomeQualifies(min_chars) == \E i \in DOMAIN x_in.tds : Qualifies(x_in.tds[i], min_chars)

\* C26: the block selected never contains a marker and has at least 6
\* non-blank lines; it has at least 250 characters, or at least 180 when no td
\* passes the primary filter; and the result is empty when no td passes the
\* filter in either pass.
C26_NoMarkerBlockSelected ==
    Extracted =>
        /\ x_out.block # 0 =>
               /\ ~SelectedTd.marker
               /\ Len(SelectedTd.lines) >= MinBlockLines
               /\ IF SomeQualifies(PrimaryMinChars)
                  THEN Qualifies(SelectedTd, PrimaryMinChars)
                  ELSE Qualifies(SelectedTd, FallbackMinChars)
        /\ ~SomeQualifies(FallbackMinChars) => (x_out.block = 0 /\ x_out.text = <<>>)

\* C27: the block selected is one of the blocks that passed the pass in use, no
\* block that passed has a greater sum of line lengths, and no block before it
\* in the document has an equal sum.
C27_GreatestSumFirstWins ==
    (Extracted /\ Blocks(x_in.tds) # {}) =>
        /\ x_out.block \in Blocks(x_in.tds)
        /\ \A j \in Blocks(x_in.tds) :
               /\ LineChars(x_in.tds[j]) <= LineChars(SelectedTd)
               /\ j < x_out.block => LineChars(x_in.tds[j]) < LineChars(SelectedTd)

\* C27 witness: a thin block, then two blocks of 300 characters in lines, the
\* second of them with the longer raw text: the first of the two is selected.
C27_Witness ==
    /\ Extracted
    /\ x_in.tds = <<ThinBlock, WideBlock, TallBlock>>
    /\ LineChars(WideBlock) = LineChars(TallBlock)
    /\ CellTextLen(WideBlock) < CellTextLen(TallBlock)
    /\ x_out.block = 2

(***************************************************************************)
(* The end of the scan.                                                    *)
(***************************************************************************)
BudgetSpent == s_attempted >= s_in.max_fetch

C21_AttemptStep ==
    /\ (s_attempted' # s_attempted \/ s_log' # s_log) =>
           (~AllBandsFull /\ ~BudgetSpent /\ s_attempted' = s_attempted + 1)
    /\ (s_pc = "scan" /\ (AllBandsFull \/ BudgetSpent)) => s_pc' = "done"

\* C21: the scan reaches its end in every run; attempted never exceeds
\* max_fetch; a candidate is attempted only while some band is not full and
\* fewer than max_fetch candidates were attempted, and once either is no
\* longer so the next step of the scan is its end.
C21_ScanStops ==
    /\ [](s_attempted <= s_in.max_fetch)
    /\ [][C21_AttemptStep]_vars
    /\ (s_pc = "scan") ~> (s_pc = "done")

\* C21 witness: per_band 1 and the default max_fetch; the first three candidates
\* filled easy, medium and hard, and the scan ended with a fourth row of the
\* pool left and never attempted.
C21_Witness ==
    /\ s_pc = "done"
    /\ s_in.per_band = 1
    /\ s_in.max_fetch = DefaultMaxFetch
    /\ AllBandsFull
    /\ s_attempted = 3
    /\ Len(s_log) = 3
    /\ Len(s_pool) = 4
    /\ s_idx = 4

(***************************************************************************)
(* The candidate pool.                                                     *)
(***************************************************************************)
ScanStarted == s_pc # "idle"

\* The pool holds the poems read that have 8 to 60 lines, each as often as read.
PoolIsInRangePoems ==
    /\ Len(s_pool) = Len(SelectSeq(s_in.all_poems, InLineRange))
    /\ {s_pool[i] : i \in DOMAIN s_pool}
           = {s_in.all_poems[i] : i \in {k \in DOMAIN s_in.all_poems :
                                             InLineRange(s_in.all_poems[k])}}

\* C25 (as claimed): the pool holds exactly the poems with 8 to 60 lines, by
\* views descending, and among equal views by lines descending.
C25_TiesLongerFirst ==
    ScanStarted =>
        /\ PoolIsInRangePoems
        /\ \A i, j \in DOMAIN s_pool :
               i < j =>
                   \/ s_pool[i].views > s_pool[j].views
                   \/ s_pool[i].views = s_pool[j].views /\ s_pool[i].lines >= s_pool[j].lines

\* C25 (amended): the pool holds exactly the poems with 8 to 60 lines, by views
\* descending, and among equal views by lines ascending: the shorter poem is
\* scanned first.
C25_TiesShorterFirst ==
    ScanStarted =>
        /\ PoolIsInRangePoems
        /\ \A i, j \in DOMAIN s_pool :
               i < j =>
                   \/ s_pool[i].views > s_pool[j].views
                   \/ s_pool[i].views = s_pool[j].views /\ s_pool[i].lines <= s_pool[j].lines

\* C25 witness: the file has a 12-line poem and then a 10-line poem, both with
\* 9 views; the pool begins with the 10-line poem.
C25_Witness ==
    /\ ScanStarted
    /\ Len(s_in.all_poems) = 4
    /\ s_in.all_poems[1].lines = 12
    /\ s_in.all_poems[2].lines = 10
    /\ s_in.all_poems[1].views = s_in.all_poems[2].views
    /\ s_pool[1] = s_in.all_poems[2]
    /\ s_pool[2] = s_in.all_poems[1]

(***************************************************************************)
(* Candidates the scan passes over.                                        *)
(***************************************************************************)
\* The iteration this step made raised in fetch_candidate_text_cached, or got
\* an empty text from it.
SkipsCandidate ==
    /\ Len(s_log') = Len(s_log) + 1
    /\ LET e == s_log'[Len(s_log')]
       IN  e.outcome = "raised" \/ TextOf(e) = <<>>

C28_Step ==
    SkipsCandidate =>
        /\ s_log'[Len(s_log')].placed = "none"
        /\ s_shortlisted' = s_shortlisted
        /\ s_attempted' = s_attempted + 1
        /\ s_pc' = "scan"
        /\ s_idx' = s_idx + 1
        /\ s_pool' = s_pool

\* C28: an iteration whose fetch or extraction raised, or whose text is empty,
\* places its candidate in no band, leaves every band as it was, counts the
\* candidate as attempted and leaves the scan in its loop at the next row.
C28_FailureSkipsCandidate == [][C28_Step]_vars

\* C28 witness: the first candidate's GET raised, the second candidate's page
\* gave an empty text, and the scan went on to place the third in the hard band.
C28_Witness ==
    /\ Len(s_log) = 3
    /\ s_attempted = 3
    /\ s_log[1].outcome = "raised"
    /\ s_log[2].outcome \in {"cached", "fetched"}
    /\ TextOf(s_log[2]) = <<>>
    /\ s_log[3].placed = "hard"
    /\ Len(s_shortlisted.hard) = 1
    /\ s_shortlisted.easy = <<>>
    /\ s_shortlisted.medium = <<>>

(***************************************************************************)
(* Links in one scan.                                                      *)
(***************************************************************************)
\* No two entries of a sequence of records have the same link.
DistinctLinks(seq) == \A i, j \in DOMAIN seq : i < j => seq[i].link # seq[j].link

AllShortlisted == s_shortlisted.easy \o s_shortlisted.medium \o s_shortlisted.hard

\* C31: in one scan no link is attempted twice, and no link is in the shortlist
\* twice, whether in one band or in two, whatever rows the corpus repeats.
C31_LinkAttemptedOnce ==
    /\ DistinctLinks(s_pool)
    /\ DistinctLinks(s_log)
    /\ DistinctLinks(AllShortlisted)

\* C31 witness: the corpus has the row of u1 twice; the scan has ended after two
\* attempts, one for u1 and one for u2, with u1 in the shortlist once.
C31_Witness ==
    /\ s_pc = "done"
    /\ s_in.all_poems = load_poems(RepeatedRowsCsv)
    /\ RepeatedRowsCsv[1].link = RepeatedRowsCsv[2].link
    /\ s_in.max_fetch = DefaultMaxFetch
    /\ s_attempted = 2
    /\ Len(s_log) = 2
    /\ Cardinality({i \in DOMAIN AllShortlisted : AllShortlisted[i].link = "u1"}) = 1

====
